---- MODULE Spec2Model ----
(***************************************************************************)
(* The review pipeline of pulse-guard: the per-file response extractor,    *)
(* the concurrent review stage, the score aggregation and the splitting of *)
(* the report into comments.  The repository holds two variants of the     *)
(* pipeline: pulse_guard/agent/graph.py ("graph") and the refactored       *)
(* backend/agent services ("service"); the variable impl says which one a  *)
(* behaviour runs.                                                         *)
(*                                                                         *)
(* Values decoded from the model's JSON reply are tagged records           *)
(* [t, n, s]: t is the Python type json.loads produced, n the number       *)
(* (a float is held in tenths), s the string.                              *)
(***************************************************************************)
EXTENDS Integers, Sequences, FiniteSets, TLC

VARIABLES
    impl,               \* "graph" or "service": the variant of the pipeline
    files,              \* state.files: the filenames of the batch, in order
    pc,                 \* position of the review stage
    task,               \* per file index: "new", "running" or "settled"
    replies,            \* per file index: <<>> or <<the outcome of its model call>>
    results,            \* the slots asyncio.gather fills, one per file index
    calls,              \* per file index: number of llm.ainvoke calls made
    file_reviews,       \* state.file_reviews of the returned state
    enhanced_analysis,  \* state.enhanced_analysis: <<>> is None, <<ea>> is set
    overall_summary,    \* state.overall_summary ("" models None)
    response,           \* extractor harness: the reply text, as decoded
    record,             \* extractor harness: <<>> or <<the record returned>>
    text,               \* extractor harness: the reply as text, a sequence of atoms
    intended,           \* extractor harness: the reply the text was meant to be
    candidate,          \* extractor harness: the part of the reply taken for JSON
    fixed,              \* extractor harness: what _fix_json_format returned for it
    comment,            \* publisher: the report, as the lengths of its lines
    max_length,         \* publisher: the budget the caller passes
    posted,             \* publisher: the comments handed to post_pr_comment, in order
    stored,             \* <<>> or <<the review_result handed to the store>>
    fallback,           \* the fallback comments handed to post_pr_comment
    file_infos,         \* state.files: the FileInfo objects, in order
    file_contents,      \* state.file_contents: filename -> content
    input_state,        \* the AgentState object the review stage was called with
    db_record_id,       \* state.db_record_id of the state the pipeline carries on
    job                 \* the process_pull_request job: its request and what it did

vars == <<impl, files, pc, task, replies, results, calls, file_reviews, enhanced_analysis,
          overall_summary, response, record, text, intended, candidate, fixed, comment,
          max_length, posted, stored, fallback, file_infos, file_contents,
          input_state, db_record_id, job>>

reviewVars == <<files, pc, task, replies, results, calls, file_reviews, enhanced_analysis,
                overall_summary>>
parseVars == <<response, record, text, intended, candidate, fixed>>
postVars == <<comment, max_length, posted, stored, fallback>>
fetchVars == <<file_infos, file_contents>>
stateVars == <<input_state, db_record_id>>
jobVars == <<job>>

\* The content of a file as the platform returns it, the sentinel stored when
\* the platform raises, and the content of a FileInfo that was never fetched.
Content(filename) == <<"content of", filename>>
ErrorSentinel(error) == <<"Error fetching file content: ", error>>
NoContent == <<>>

FileInfo(filename, status, content) ==
    [filename |-> filename, status |-> status, content |-> content]

\* a file_contents with an entry for every file, removed or not
ContentsOfEveryFile(infos) ==
    [f \in {infos[i].filename : i \in 1..Len(infos)} |->
        infos[CHOOSE i \in 1..Len(infos) : infos[i].filename = f].content]

\* file_contents after the fetch loop: one entry per file that is not removed
ContentsOf(infos) ==
    [f \in {infos[i].filename : i \in {j \in 1..Len(infos) : infos[j].status # "removed"}} |->
        infos[CHOOSE i \in 1..Len(infos) :
                infos[i].filename = f /\ infos[i].status # "removed"].content]

\* the FileInfo objects of a batch whose contents were all fetched
FetchedInfos(names) ==
    [i \in 1..Len(names) |-> FileInfo(names[i], "modified", Content(names[i]))]


-----------------------------------------------------------------------------
\* Bounds of the model.

MaxFiles == 2
MaxLines == 3

-----------------------------------------------------------------------------
\* Decoded JSON scalars.

JInt(n) == [t |-> "int", n |-> n, s |-> ""]
JFloat(tenths) == [t |-> "float", n |-> tenths, s |-> ""]
JInf == [t |-> "float", n |-> 0, s |-> "inf"]
JNaN == [t |-> "float", n |-> 0, s |-> "nan"]
JStr(s) == [t |-> "str", n |-> 0, s |-> s]
JBool(b) == [t |-> "bool", n |-> IF b THEN 1 ELSE 0, s |-> ""]
JNull == [t |-> "null", n |-> 0, s |-> ""]
JEmptyList == [t |-> "list", n |-> 0, s |-> ""]
Missing == [t |-> "missing", n |-> 0, s |-> ""]

\* dict.get(key, default)
Get(raw, default) == IF raw = Missing THEN default ELSE raw

\* int(x) of a float held in tenths truncates toward zero
TruncTenths(tenths) ==
    IF tenths >= 0 THEN tenths \div 10 ELSE -((-tenths) \div 10)

\* float(s) for the strings of the model: a float, or "ValueError"
ParseFloat(s) ==
    CASE s = "85" -> JFloat(850)
      [] s = "85.9" -> JFloat(859)
      [] s = "-3" -> JFloat(-30)
      [] s = "250" -> JFloat(2500)
      [] s = "1e999" -> JInf
      [] s = "nan" -> JNaN
      [] OTHER -> JStr("ValueError")

Clamp(n) == IF n < 0 THEN 0 ELSE IF n > 100 THEN 100 ELSE n

DefaultScore == 80

\* int(f) of a float: a number, ValueError for nan, OverflowError for inf
IntOfFloat(f) ==
    CASE f.s = "inf" -> [ok |-> FALSE, err |-> "OverflowError", v |-> 0]
      [] f.s = "nan" -> [ok |-> FALSE, err |-> "ValueError", v |-> 0]
      [] OTHER -> [ok |-> TRUE, err |-> "", v |-> TruncTenths(f.n)]

Ok(n) == [ok |-> TRUE, err |-> "", v |-> n]

\* the except (ValueError, TypeError) clause of _safe_get_score around int(...)
ScoreOfInt(c) ==
    IF c.ok THEN Ok(Clamp(c.v))
    ELSE IF c.err \in {"ValueError", "TypeError"} THEN Ok(DefaultScore)
    ELSE c

\* _safe_get_score / DataValidator.safe_get_score: the clamped integer, or the
\* default 80 for a value of another type or one that int()/float() rejects
\* with ValueError; an OverflowError (int of an infinite float) is not caught
\* and escapes: ok = FALSE.
safe_get_score(score) ==
    CASE score.t \in {"int", "bool"} -> Ok(Clamp(score.n))
      [] score.t = "float" -> ScoreOfInt(IntOfFloat(score))
      [] score.t = "str" ->
           IF ParseFloat(score.s).t = "float"
           THEN ScoreOfInt(IntOfFloat(ParseFloat(score.s)))
           ELSE Ok(DefaultScore)
      [] OTHER -> Ok(DefaultScore)

-----------------------------------------------------------------------------
\* Findings.  An issue of the decoded reply is a record of decoded scalars;
\* t = "dict" for a JSON object, anything else for an element that is none.

SEVERITY_LEVELS == {"info", "warning", "error", "critical"}
ISSUE_CATEGORIES == {"code_quality", "security", "performance", "best_practices",
                     "documentation", "other"}

IssueDict(type, title, description, line, suggestion, severity, category) ==
    [t |-> "dict", type |-> type, title |-> title, description |-> description,
     line |-> line, line_start |-> Missing, suggestion |-> suggestion,
     severity |-> severity, category |-> category]

NotADict == [t |-> "str", type |-> Missing, title |-> Missing, description |-> Missing,
             line |-> Missing, line_start |-> Missing, suggestion |-> Missing,
             severity |-> Missing, category |-> Missing]

\* graph.py: the validated_issue dict built for each dict element of issues;
\* severity and category are copied as they are.
validated_issue(issue) ==
    [t |-> "dict",
     type |-> Get(issue.type, JStr("info")),
     title |-> Get(issue.title, JStr("unknown issue")),
     description |-> Get(issue.description, JStr("")),
     line |-> Get(issue.line, Get(issue.line_start, JNull)),
     line_start |-> Missing,
     suggestion |-> Get(issue.suggestion, JStr("")),
     severity |-> Get(issue.severity, Get(issue.type, JStr("info"))),
     category |-> Get(issue.category, JStr("other"))]

\* DataValidator.validate_issue_data: the same dict, then severity and
\* category forced into the enumerated sets.
validate_issue_data(issue_dict) ==
    LET v == validated_issue(issue_dict)
        sev == IF v.severity.t = "str" /\ v.severity.s \in SEVERITY_LEVELS
               THEN v.severity ELSE JStr("info")
        cat == IF v.category.t = "str" /\ v.category.s \in ISSUE_CATEGORIES
               THEN v.category ELSE JStr("other")
    IN  [v EXCEPT !.severity = sev, !.category = cat]

\* pydantic's validation of CodeIssueInfo(**issue_data): the string fields
\* take strings only, line an integer or None.
CodeIssueInfoValid(d) ==
    /\ d.t = "dict"
    /\ d.type.t = "str"
    /\ d.title.t = "str"
    /\ d.description.t = "str"
    /\ Get(d.suggestion, JStr("")).t = "str"
    /\ Get(d.category, JStr("general")).t = "str"
    /\ Get(d.severity, JStr("medium")).t = "str"
    /\ Get(d.line, JNull).t \in {"null", "int"}

\* CodeIssueInfo(**issue_data), with the model's defaults for absent keys
CodeIssueInfo(d) ==
    [type |-> d.type.s, title |-> d.title.s, description |-> d.description.s,
     line |-> Get(d.line, JNull),
     suggestion |-> Get(d.suggestion, JStr("")).s,
     category |-> Get(d.category, JStr("general")).s,
     severity |-> Get(d.severity, JStr("medium")).s]

-----------------------------------------------------------------------------
\* The decoded reply.  A collection value is [t, items]: t = "list" for a JSON
\* array, another tag for a value of another type, "missing" for an absent key.

List(items) == [t |-> "list", items |-> items]
NonList(t) == [t |-> t, items |-> <<>>]
MissingList == NonList("missing")

IsDict(x) == x.t = "dict"
HasValidIssue(x) == CodeIssueInfoValid(x)

ScoreKeys == {"score", "code_quality_score", "security_score", "business_score",
              "performance_score", "best_practices_score"}

\* the result dict of a JSON object or of pattern extraction
Obj(overall, score, cq, sec, bus, perf, bp, issues, pp, summary) ==
    [overall_score |-> overall, score |-> score, code_quality_score |-> cq,
     security_score |-> sec, business_score |-> bus, performance_score |-> perf,
     best_practices_score |-> bp, issues |-> issues, positive_points |-> pp,
     summary |-> summary]

EmptyObj == Obj(Missing, Missing, Missing, Missing, Missing, Missing, Missing,
                MissingList, MissingList, Missing)

\* the per-file dict the extractor and the task hand to the review stage
FileDict(filename, score, cq, sec, bus, perf, bp, issues, pp, summary) ==
    [filename |-> filename, score |-> score, code_quality_score |-> cq,
     security_score |-> sec, business_score |-> bus, performance_score |-> perf,
     best_practices_score |-> bp, issues |-> issues, positive_points |-> pp,
     summary |-> summary]

ErrorScore == 70
ParseFailScore == 75
RegexDefaultScoreGraph == 75

\* DataValidator.create_default_file_review(filename, error_msg)
create_default_file_review(filename, error_msg) ==
    FileDict(filename, JInt(ErrorScore), JInt(ErrorScore), JInt(ErrorScore),
             JInt(ErrorScore), JInt(ErrorScore), JInt(ErrorScore),
             <<[t |-> "dict", type |-> JStr("warning"),
                title |-> JStr(IF error_msg # "" THEN "review exception"
                               ELSE "default result"),
                description |-> JStr(IF error_msg # "" THEN error_msg
                                     ELSE "default review result used"),
                line |-> Missing, line_start |-> Missing,
                suggestion |-> JStr("check the review process"),
                severity |-> JStr("warning"), category |-> JStr("other")]>>,
             List(<<JStr("file reviewed")>>),
             JStr("file " \o filename \o " reviewed"
                  \o (IF error_msg # "" THEN " (" \o error_msg \o ")" ELSE "")))

\* graph.py: the dict returned by the except Exception branch of
\* _parse_single_file_response
parse_failed_default(filename, err) ==
    FileDict(filename, JInt(ParseFailScore), JInt(ParseFailScore),
             JInt(ParseFailScore), JInt(ParseFailScore), JInt(ParseFailScore),
             JInt(ParseFailScore),
             <<[t |-> "dict", type |-> JStr("warning"),
                title |-> JStr("parse failed"),
                description |-> JStr("LLM response parse failed: " \o err),
                line |-> Missing, line_start |-> Missing,
                suggestion |-> JStr("check the LLM output format"),
                severity |-> JStr("warning"), category |-> JStr("other")]>>,
             List(<<JStr("file reviewed")>>),
             JStr("file " \o filename \o " reviewed (parse failed, default result)"))

\* _extract_info_with_regex: `found` holds what the patterns matched in the
\* text (Missing for a pattern with no match); every other key keeps the
\* default of the result dict, 75 in graph.py and DEFAULT_SCORES in the service.
extract_info_with_regex(found, filename, variant) ==
    LET d == JInt(IF variant = "graph" THEN RegexDefaultScoreGraph ELSE DefaultScore)
        pair(i) == IssueDict(JStr("info"), i.title, i.description, Missing,
                             JStr(""), JStr("info"), JStr("other"))
    IN  Obj(Get(found.overall_score, d), Missing,
            Get(found.code_quality_score, d), Get(found.security_score, d),
            Get(found.business_score, d), Get(found.performance_score, d),
            Get(found.best_practices_score, d),
            List([i \in 1..Len(found.issues.items) |-> pair(found.issues.items[i])]),
            IF found.positive_points.t = "missing" THEN List(<<>>)
            ELSE found.positive_points,
            Get(found.summary,
                JStr("file " \o filename \o " reviewed (regex)")))

\* The validation pass at the end of _parse_single_file_response /
\* ResponseParser._validate_and_normalize_result.  err is the exception the
\* pass raises ("" for none): iterating an issues value that is no iterable
\* is a TypeError, an infinite score an OverflowError.
NormalizeError(result) ==
    LET overall == Get(result.overall_score, Get(result.score, JInt(DefaultScore)))
        sc(x) == safe_get_score(Get(x, JInt(DefaultScore)))
    IN  IF result.issues.t \in {"null", "int", "bool", "float"} THEN "TypeError"
        ELSE IF \/ ~safe_get_score(overall).ok
                \/ ~sc(result.code_quality_score).ok
                \/ ~sc(result.security_score).ok
                \/ ~sc(result.business_score).ok
                \/ ~sc(result.performance_score).ok
                \/ ~sc(result.best_practices_score).ok
             THEN "OverflowError"
        ELSE ""

validate_and_normalize_result(result, filename, variant) ==
    LET overall == Get(result.overall_score, Get(result.score, JInt(DefaultScore)))
        sc(x) == JInt(safe_get_score(Get(x, JInt(DefaultScore))).v)
        dicts == SelectSeq(result.issues.items, IsDict)
        issues == IF variant = "graph"
                  THEN [i \in 1..Len(dicts) |-> validated_issue(dicts[i])]
                  ELSE [i \in 1..Len(dicts) |-> validate_issue_data(dicts[i])]
    IN  FileDict(filename, sc(overall), sc(result.code_quality_score),
                 sc(result.security_score), sc(result.business_score),
                 sc(result.performance_score), sc(result.best_practices_score),
                 issues,
                 IF result.positive_points.t = "missing" THEN List(<<>>)
                 ELSE result.positive_points,
                 Get(result.summary, JStr("file " \o filename \o " reviewed")))

\* _parse_single_file_response / ResponseParser.parse_single_file_response on
\* a reply whose decoding gave resp: a JSON object (kind "json"), a JSON value
\* that is no object ("nondict"), or nothing, so that pattern extraction runs
\* on the text ("regex").
parse_single_file_response(resp, filename, variant) ==
    LET fail(err) == IF variant = "graph" THEN parse_failed_default(filename, err)
                     ELSE create_default_file_review(filename, "parse failed: " \o err)
        result == IF resp.kind = "regex"
                  THEN extract_info_with_regex(resp.obj, filename, variant)
                  ELSE resp.obj
    IN  IF resp.kind = "nondict" THEN fail("AttributeError")
        ELSE IF NormalizeError(result) # "" THEN fail(NormalizeError(result))
        ELSE validate_and_normalize_result(result, filename, variant)

-----------------------------------------------------------------------------
\* The per-file task and the conversion of its result.

\* the task with an except branch that reports no finding, as
\* ReviewService._create_error_review does
review_single_file_async_no_issue(filename, resp, variant) ==
    IF resp.kind = "raise"
    THEN FileDict(filename, JInt(ErrorScore), Missing, Missing, Missing, Missing,
                  Missing, <<>>, List(<<>>), JStr("review failed: " \o resp.err))
    ELSE parse_single_file_response(resp, filename, variant)

\* _review_single_file_async: resp.kind = "raise" when llm.ainvoke raises
\* (resp.err is str(e)); the except branch returns a dict, so the task itself
\* never raises.
review_single_file_async(filename, resp, variant) ==
    IF resp.kind = "raise"
    THEN IF variant = "graph"
         THEN FileDict(filename, JInt(ErrorScore), Missing, Missing, Missing,
                       Missing, Missing,
                       <<[t |-> "dict", type |-> JStr("error"),
                          title |-> JStr("review exception"),
                          description |-> JStr(resp.err),
                          line |-> Missing, line_start |-> Missing,
                          suggestion |-> Missing, severity |-> Missing,
                          category |-> Missing]>>,
                       List(<<>>), JStr("review exception: " \o resp.err))
         ELSE create_default_file_review(filename, resp.err)
    ELSE parse_single_file_response(resp, filename, variant)

IsStr(x) == x.t = "str"
StrOf(x) == x.s

\* pydantic's validation of FileReviewInfo(...): positive_points must be a list
\* of strings and summary a string (the scores are integers by construction);
\* anything else raises ValidationError.
FileReviewInfoValid(d) ==
    /\ d.positive_points.t = "list"
    /\ \A i \in 1..Len(d.positive_points.items) : IsStr(d.positive_points.items[i])
    /\ d.summary.t = "str"

FileReviewInfo(d, issues) ==
    [filename |-> d.filename,
     score |-> Get(d.score, JInt(DefaultScore)).n,
     code_quality_score |-> Get(d.code_quality_score, JInt(DefaultScore)).n,
     security_score |-> Get(d.security_score, JInt(DefaultScore)).n,
     business_score |-> Get(d.business_score, JInt(DefaultScore)).n,
     performance_score |-> Get(d.performance_score, JInt(DefaultScore)).n,
     best_practices_score |-> Get(d.best_practices_score, JInt(DefaultScore)).n,
     issues |-> issues,
     positive_points |-> [i \in 1..Len(d.positive_points.items) |->
                            StrOf(d.positive_points.items[i])],
     summary |-> d.summary.s]

\* the issues of the FileReviewInfo: each issue dict becomes a CodeIssueInfo,
\* one that fails validation is skipped.  The service passes each dict through
\* validate_issue_data first, graph.py does not.
converted_issues(d, variant) ==
    LET dicts == IF variant = "graph" THEN d.issues
                 ELSE [i \in 1..Len(d.issues) |-> validate_issue_data(d.issues[i])]
        valid == SelectSeq(dicts, HasValidIssue)
    IN  [i \in 1..Len(valid) |-> CodeIssueInfo(valid[i])]

\* graph.py lines 164-186 / ReviewService._convert_result_to_file_review
convert_result_to_file_review(d, variant) ==
    FileReviewInfo(d, converted_issues(d, variant))

-----------------------------------------------------------------------------
\* Aggregation.  The aggregate scores are floats rounded to one decimal: they
\* are held in tenths.

RECURSIVE SumSeq(_)
SumSeq(seq) == IF seq = <<>> THEN 0 ELSE Head(seq) + SumSeq(Tail(seq))

\* Python's round(num/den * 1/10 ...): num/den rounded to an integer, ties to even
RoundHalfEven(num, den) ==
    LET q == num \div den
        r == num % den
    IN  IF 2 * r < den THEN q
        ELSE IF 2 * r > den THEN q + 1
        ELSE IF q % 2 = 0 THEN q ELSE q + 1

\* SCORE_WEIGHTS, in thousandths
WeightCodeQuality == 250
WeightSecurity == 250
WeightBusiness == 250
WeightPerformance == 125
WeightBestPractices == 125

ScoreInt(n) == safe_get_score(JInt(n)).v

\* the columns with the file's overall score in place of its code quality
ColumnWithScore(file_reviews_, key) ==
    [i \in 1..Len(file_reviews_) |->
        CASE key = "score" -> ScoreInt(file_reviews_[i].score)
          [] key = "code_quality_score" -> ScoreInt(file_reviews_[i].score)
          [] key = "security_score" -> ScoreInt(file_reviews_[i].security_score)
          [] key = "business_score" -> ScoreInt(file_reviews_[i].business_score)
          [] key = "performance_score" -> ScoreInt(file_reviews_[i].performance_score)
          [] OTHER -> ScoreInt(file_reviews_[i].best_practices_score)]

Column(file_reviews_, key) ==
    [i \in 1..Len(file_reviews_) |->
        CASE key = "score" -> ScoreInt(file_reviews_[i].score)
          [] key = "code_quality_score" -> ScoreInt(file_reviews_[i].code_quality_score)
          [] key = "security_score" -> ScoreInt(file_reviews_[i].security_score)
          [] key = "business_score" -> ScoreInt(file_reviews_[i].business_score)
          [] key = "performance_score" -> ScoreInt(file_reviews_[i].performance_score)
          [] OTHER -> ScoreInt(file_reviews_[i].best_practices_score)]

IssueCounts(file_reviews_) == [i \in 1..Len(file_reviews_) |-> Len(file_reviews_[i].issues)]
HighScore(file_reviews_) ==
    [i \in 1..Len(file_reviews_) |-> IF ScoreInt(file_reviews_[i].score) >= 85 THEN 1 ELSE 0]

Max(a, b) == IF a >= b THEN a ELSE b

\* the counters without the max(0, ...) around standards_passed
calculate_overall_scores_unclamped(frs) ==
    LET total_files == Len(frs)
        total_issues == SumSeq(IssueCounts(frs))
    IN  [overall_score |-> 0, code_quality_score |-> 0, security_score |-> 0,
         business_score |-> 0, performance_score |-> 0, best_practices_score |-> 0,
         summary |-> [text |-> "reviewed files, issues, high quality files",
                      files |-> total_files, issues |-> total_issues,
                      high |-> SumSeq(HighScore(frs))],
         standards_passed |-> total_files * 5 - total_issues,
         standards_failed |-> total_issues,
         standards_total |-> total_files * 5]

\* _calculate_overall_scores, for a non-empty list: the dict it returns
calculate_overall_scores(frs) ==
    LET total_files == Len(frs)
        S(key) == SumSeq(Column(frs, key))
        total_issues == SumSeq(IssueCounts(frs))
        weighted == WeightCodeQuality * S("code_quality_score")
                    + WeightSecurity * S("security_score")
                    + WeightBusiness * S("business_score")
                    + WeightPerformance * S("performance_score")
                    + WeightBestPractices * S("best_practices_score")
    IN  [overall_score |-> RoundHalfEven(10 * weighted, 1000 * total_files),
         code_quality_score |-> RoundHalfEven(10 * S("code_quality_score"), total_files),
         security_score |-> RoundHalfEven(10 * S("security_score"), total_files),
         business_score |-> RoundHalfEven(10 * S("business_score"), total_files),
         performance_score |-> RoundHalfEven(10 * S("performance_score"), total_files),
         best_practices_score |-> RoundHalfEven(10 * S("best_practices_score"), total_files),
         summary |-> [text |-> "reviewed files, issues, high quality files",
                      files |-> total_files, issues |-> total_issues,
                      high |-> SumSeq(HighScore(frs))],
         standards_passed |-> Max(0, total_files * 5 - total_issues),
         standards_failed |-> total_issues,
         standards_total |-> total_files * 5]

\* the default of the float fields of EnhancedAnalysis, 80.0, in tenths
EnhancedDefaultTenths == 800

\* EnhancedAnalysis(...) as intelligent_code_review / _create_enhanced_analysis
\* build it: performance_score and best_practices_score are not passed and
\* keep the default of the model class.
create_enhanced_analysis(overall_result, frs) ==
    [overall_score |-> overall_result.overall_score,
     code_quality_score |-> overall_result.code_quality_score,
     security_score |-> overall_result.security_score,
     business_score |-> overall_result.business_score,
     performance_score |-> EnhancedDefaultTenths,
     best_practices_score |-> EnhancedDefaultTenths,
     file_results |-> frs,
     summary |-> overall_result.summary,
     standards_passed |-> overall_result.standards_passed,
     standards_failed |-> overall_result.standards_failed,
     standards_total |-> overall_result.standards_total]

NothingToReview == [text |-> "no code files to review", files |-> 0, issues |-> 0,
                    high |-> 0]
NoSummary == [text |-> "", files |-> 0, issues |-> 0, high |-> 0]

\* AgentState as the fetch stage hands it on: file_reviews, overall_summary,
\* enhanced_analysis and db_record_id still have their defaults
NewState ==
    [file_reviews |-> <<>>, overall_summary |-> NoSummary, enhanced_analysis |-> <<>>,
     db_record_id |-> <<>>]

\* the id save_complete_review_result returns
RecordId == 1

\* the review stage returned the object it was called with (the `return state`
\* of its except branch): no result was assigned although there were files
ReturnedIsInput ==
    /\ pc \in {"done", "saved", "post", "fallback", "end"}
    /\ files # <<>>
    /\ enhanced_analysis = <<>>

\* no job of the worker is under way
NoJob == [platform |-> "", author |-> "", retries |-> 0, runs |-> 0,
          countdowns |-> <<>>, errors |-> <<>>, outcome |-> <<>>]

\* the EnhancedAnalysis of the empty batch: 100 for the four scores passed
create_empty_review_analysis ==
    [overall_score |-> 1000, code_quality_score |-> 1000, security_score |-> 1000,
     business_score |-> 1000,
     performance_score |-> EnhancedDefaultTenths,
     best_practices_score |-> EnhancedDefaultTenths,
     file_results |-> <<>>, summary |-> NothingToReview,
     standards_passed |-> 0, standards_failed |-> 0, standards_total |-> 0]

-----------------------------------------------------------------------------
\* Inputs of the model.

Filenames == {"f1.py", "f2.py", "f3.py"}

\* the file lists: up to MaxFiles distinct filenames, in any order
FileLists ==
    UNION {{f \in [1..n -> Filenames] : \A i, j \in 1..n : i # j => f[i] # f[j]}
           : n \in 0..MaxFiles}

Raise(err) == [kind |-> "raise", err |-> err, obj |-> EmptyObj]
Json(obj) == [kind |-> "json", err |-> "", obj |-> obj]
NonDict == [kind |-> "nondict", err |-> "", obj |-> EmptyObj]
Regex(found) == [kind |-> "regex", err |-> "", obj |-> found]

GoodIssue == IssueDict(JStr("warning"), JStr("long function"), JStr("split it"),
                       JInt(45), JStr("extract a helper"), JStr("warning"),
                       JStr("code_quality"))
\* an issue the model labelled outside the enumerated sets
OddIssue == IssueDict(JStr("error"), JStr("sql injection"), JStr("unescaped input"),
                      Missing, Missing, JStr("HIGH"), JStr("Security"))

BaseObj == Obj(JInt(85), Missing, JInt(80), JInt(90), JInt(85), JInt(60), JInt(75),
               List(<<GoodIssue>>), List(<<JStr("clear naming")>>), JStr("good file"))

\* the replies the model calls of the review stage can produce
Responses ==
    { Raise("timeout"), Raise(""),
      Json(BaseObj),
      Json([BaseObj EXCEPT !.overall_score = JInt(92), !.code_quality_score = JInt(71),
                           !.issues = List(<<>>)]),
      Json([BaseObj EXCEPT !.issues = List(<<OddIssue, GoodIssue>>)]),
      Json([BaseObj EXCEPT !.summary = JInt(5)]),
      Json([BaseObj EXCEPT !.positive_points = NonList("str")]),
      Json([BaseObj EXCEPT !.security_score = JInf]),
      NonDict,
      Regex(EmptyObj) }

-----------------------------------------------------------------------------
\* The review stage: intelligent_code_review.

NoComment == <<>>

Init ==
    /\ impl \in {"graph", "service"}
    /\ files \in FileLists
    /\ pc = "start"
    /\ task = [i \in 1..Len(files) |-> "new"]
    /\ replies = [i \in 1..Len(files) |-> <<>>]
    /\ results = [i \in 1..Len(files) |-> <<>>]
    /\ calls = [i \in 1..Len(files) |-> 0]
    /\ file_reviews = <<>>
    /\ enhanced_analysis = <<>>
    /\ overall_summary = NoSummary
    /\ response = NonDict
    /\ record = <<>>
    /\ text = <<>>
    /\ intended = <<>>
    /\ candidate = [found |-> FALSE, s |-> <<>>]
    /\ fixed = <<>>
    /\ comment = NoComment
    /\ max_length = 0
    /\ posted = <<>>
    /\ stored = <<>>
    /\ fallback = <<>>
    /\ file_infos = FetchedInfos(files)
    /\ file_contents = ContentsOf(file_infos)
    /\ db_record_id = IF stored # <<>> /\ stored[1].saved THEN <<RecordId>> ELSE <<>>
    /\ input_state = NewState
    /\ job = NoJob

\* if not files: the empty review state, no task is created
ReviewEmpty ==
    /\ pc = "start"
    /\ files = <<>>
    /\ file_reviews' = <<>>
    /\ overall_summary' = NothingToReview
    /\ enhanced_analysis' = <<create_empty_review_analysis>>
    /\ pc' = "done"
    /\ UNCHANGED <<impl, files, task, replies, results, calls, fetchVars, stateVars,
                   jobVars, parseVars, postVars>>

\* the tasks list is built and handed to asyncio.gather
StartTasks ==
    /\ pc = "start"
    /\ files # <<>>
    /\ task' = [i \in 1..Len(files) |-> "running"]
    /\ pc' = "gather"
    /\ UNCHANGED <<impl, files, replies, results, calls, file_reviews,
                   enhanced_analysis, overall_summary, fetchVars, stateVars, jobVars,
                   parseVars, postVars>>

\* task i runs to its await: it builds the prompt and calls llm.ainvoke
CallModel(i) ==
    /\ pc = "gather"
    /\ task[i] = "running"
    /\ calls' = [calls EXCEPT ![i] = @ + 1]
    /\ task' = [task EXCEPT ![i] = "awaiting"]
    /\ UNCHANGED <<impl, files, pc, replies, results, file_reviews, enhanced_analysis,
                   overall_summary, fetchVars, stateVars, jobVars, parseVars,
                   postVars>>

\* a task that calls the model again after a call that raised
SettleRetrying(i) ==
    /\ pc = "gather"
    /\ task[i] = "awaiting"
    /\ \E resp \in Responses :
          /\ replies' = [replies EXCEPT ![i] = <<resp>>]
          /\ results' = [results EXCEPT
                          ![i] = <<review_single_file_async(files[i], resp, impl)>>]
          /\ task' = [task EXCEPT ![i] = IF resp.kind = "raise" /\ calls[i] < 2
                                          THEN "running" ELSE "settled"]
    /\ UNCHANGED <<impl, files, pc, calls, file_reviews, enhanced_analysis,
                   overall_summary, fetchVars, stateVars, jobVars, parseVars,
                   postVars>>

\* the model call of task i returns or raises; the task finishes and gather
\* stores its result in slot i
Settle(i) ==
    /\ pc = "gather"
    /\ task[i] = "awaiting"
    /\ \E resp \in Responses :
          /\ replies' = [replies EXCEPT ![i] = <<resp>>]
          /\ results' = [results EXCEPT
                          ![i] = <<review_single_file_async(files[i], resp, impl)>>]
    /\ task' = [task EXCEPT ![i] = "settled"]
    /\ UNCHANGED <<impl, files, pc, calls, file_reviews, enhanced_analysis,
                   overall_summary, fetchVars, stateVars, jobVars, parseVars,
                   postVars>>

AllSettled == \A i \in 1..Len(files) : task[i] = "settled"

\* the result dicts, in slot order
Gathered == [i \in 1..Len(files) |-> results[i][1]]

\* a stage that goes on as soon as one task has settled, with the results
\* there are (asyncio.wait with FIRST_COMPLETED in place of gather)
JoinFirstCompleted ==
    /\ pc = "gather"
    /\ \E i \in 1..Len(files) : task[i] = "settled"
    /\ LET settled == SelectSeq([i \in 1..Len(files) |-> i], LAMBDA i : task[i] = "settled")
           gathered == [k \in 1..Len(settled) |-> results[settled[k]][1]]
       IN  IF \A k \in 1..Len(gathered) : FileReviewInfoValid(gathered[k])
           THEN LET frs == [k \in 1..Len(gathered) |->
                               convert_result_to_file_review(gathered[k], impl)]
                    overall_result == calculate_overall_scores(frs)
                IN  /\ file_reviews' = frs
                    /\ overall_summary' = overall_result.summary
                    /\ enhanced_analysis' = <<create_enhanced_analysis(overall_result, frs)>>
           ELSE UNCHANGED <<file_reviews, overall_summary, enhanced_analysis>>
    /\ pc' = "done"
    /\ UNCHANGED <<impl, files, task, replies, results, calls, fetchVars, stateVars,
                   jobVars, parseVars, postVars>>

\* gather has returned: the results are converted in input order, aggregated
\* and stored in a copy of the state.  A ValidationError raised by a
\* FileReviewInfo(...) call is caught by the except Exception around the whole
\* stage, which returns the input state as it was.
Join ==
    /\ pc = "gather"
    /\ AllSettled
    /\ IF \A i \in 1..Len(files) : FileReviewInfoValid(Gathered[i])
       THEN LET frs == [i \in 1..Len(files) |->
                           convert_result_to_file_review(Gathered[i], impl)]
                overall_result == calculate_overall_scores(frs)
            IN  /\ file_reviews' = frs
                /\ overall_summary' = overall_result.summary
                /\ enhanced_analysis' = <<create_enhanced_analysis(overall_result, frs)>>
       ELSE UNCHANGED <<file_reviews, overall_summary, enhanced_analysis>>
    /\ pc' = "done"
    /\ UNCHANGED <<impl, files, task, replies, results, calls, fetchVars, stateVars,
                   jobVars, parseVars, postVars>>

-----------------------------------------------------------------------------
\* Properties of the review stage.

Done == pc = "done"
N == Len(files)
Raised(i) == replies[i] # <<>> /\ replies[i][1].kind = "raise"

\* C1: for N >= 1 input files and every outcome of the N model calls, the
\* finished review stage yields exactly N per-file results, the result at
\* position i carrying the filename of input file i.
C1_ExactlyNResultsInOrder ==
    (Done /\ N >= 1) =>
        /\ Len(file_reviews) = N
        /\ \A i \in 1..N : file_reviews[i].filename = files[i]

\* C2: failure isolation: whatever a sibling's task does, a file whose own
\* reply converts gets, in the output list, the result it gets on its own.
C2_SiblingsUnaffected ==
    Done =>
        \A i \in 1..N :
            FileReviewInfoValid(Gathered[i]) =>
                /\ i <= Len(file_reviews)
                /\ file_reviews[i] = convert_result_to_file_review(Gathered[i], impl)

\* C5: every Finding of every per-file result has a severity and a category
\* of the enumerated sets.
C5_FindingsNormalized ==
    \A i \in 1..Len(file_reviews) :
        \A k \in 1..Len(file_reviews[i].issues) :
            /\ file_reviews[i].issues[k].severity \in SEVERITY_LEVELS
            /\ file_reviews[i].issues[k].category \in ISSUE_CATEGORIES

SixScores(fr) == <<fr.score, fr.code_quality_score, fr.security_score,
                   fr.business_score, fr.performance_score, fr.best_practices_score>>

C7_AggregateHasNFileResults ==
    Done =>
        /\ enhanced_analysis # <<>>
        /\ Len(enhanced_analysis[1].file_results) = N
        /\ \A i \in 1..N : enhanced_analysis[1].file_results[i].filename = files[i]
        /\ file_reviews = enhanced_analysis[1].file_results

Abs(x) == IF x < 0 THEN -x ELSE x

\* stored (in tenths) is sum/count to within the rounding to one decimal
IsMeanOf(kept, sum, count) == 2 * Abs(kept * count - 10 * sum) <= count

\* C8: each of the five dimension scores stored in the aggregate is the mean
\* of that dimension over the files, and the stored overall score is
\* 0.25*quality + 0.25*security + 0.25*business + 0.125*performance
\* + 0.125*best_practices of those means (each to the stored precision).
C8_AggregateScoresAreMeans ==
    (Done /\ N >= 1 /\ enhanced_analysis # <<>>) =>
        LET ea == enhanced_analysis[1]
            S(key) == SumSeq(Column(ea.file_results, key))
        IN  /\ IsMeanOf(ea.code_quality_score, S("code_quality_score"), N)
            /\ IsMeanOf(ea.security_score, S("security_score"), N)
            /\ IsMeanOf(ea.business_score, S("business_score"), N)
            /\ IsMeanOf(ea.performance_score, S("performance_score"), N)
            /\ IsMeanOf(ea.best_practices_score, S("best_practices_score"), N)
            /\ IsMeanOf(ea.overall_score,
                        250 * S("code_quality_score") + 250 * S("security_score")
                        + 250 * S("business_score") + 125 * S("performance_score")
                        + 125 * S("best_practices_score"), 1000 * N)

\* C9: on an empty file list the stage makes no model call and returns an
\* aggregate with all six scores 100, no file results and the summary that
\* there is nothing to review.
C9_EmptyBatchAllScores100 ==
    (Done /\ N = 0) =>
        /\ calls = <<>>
        /\ enhanced_analysis # <<>>
        /\ enhanced_analysis[1].overall_score = 1000
        /\ enhanced_analysis[1].code_quality_score = 1000
        /\ enhanced_analysis[1].security_score = 1000
        /\ enhanced_analysis[1].business_score = 1000
        /\ enhanced_analysis[1].performance_score = 1000
        /\ enhanced_analysis[1].best_practices_score = 1000
        /\ enhanced_analysis[1].file_results = <<>>
        /\ enhanced_analysis[1].summary = NothingToReview

-----------------------------------------------------------------------------
\* The extractor on its own: one reply, one filename, one call.

ScoreRaws ==
    { Missing, JNull, JEmptyList, JBool(TRUE),
      JInt(-5), JInt(0), JInt(85), JInt(100), JInt(150),
      JFloat(857), JFloat(-5), JFloat(1005), JInf, JNaN,
      JStr("85"), JStr("85.9"), JStr("-3"), JStr("250"), JStr("abc"),
      JStr("1e999"), JStr("nan") }

RawScoreKeys == {"overall_score", "score", "code_quality_score", "security_score",
                 "business_score", "performance_score", "best_practices_score"}

\* what the patterns can find in a text that does not decode: digits for a
\* score, quoted strings for the summary, the findings and the positive points
FoundSome == [EmptyObj EXCEPT
                !.overall_score = JInt(250), !.security_score = JInt(40),
                !.summary = JStr("needs work"),
                !.issues = List(<<IssueDict(Missing, JStr("t1"), JStr("d1"), Missing,
                                            Missing, Missing, Missing)>>),
                !.positive_points = List(<<JStr("tests")>>)]

ParseInputs ==
    {Json([BaseObj EXCEPT ![k] = r]) : k \in RawScoreKeys, r \in ScoreRaws}
    \cup {Json([BaseObj EXCEPT !.overall_score = Missing, !.score = r]) : r \in ScoreRaws}
    \cup {Json([BaseObj EXCEPT !.summary = v]) : v \in {Missing, JNull, JInt(5), JStr("")}}
    \cup {Json([BaseObj EXCEPT !.positive_points = v]) :
            v \in {MissingList, NonList("null"), NonList("str"), List(<<JInt(1)>>)}}
    \cup {Json([BaseObj EXCEPT !.issues = v]) :
            v \in {MissingList, NonList("null"), NonList("int"), NonList("str"),
                   List(<<NotADict, OddIssue>>),
                   List(<<[GoodIssue EXCEPT !.title = JNull]>>)}}
    \cup {Json(EmptyObj), NonDict, Regex(EmptyObj), Regex(FoundSome)}

InitParse ==
    /\ impl \in {"graph", "service"}
    /\ files \in {<<f>> : f \in Filenames}
    /\ pc = "parse"
    /\ task = <<"new">>
    /\ replies = <<<<>>>>
    /\ results = <<<<>>>>
    /\ calls = <<0>>
    /\ file_reviews = <<>>
    /\ enhanced_analysis = <<>>
    /\ overall_summary = NoSummary
    /\ response \in ParseInputs
    /\ record = <<>>
    /\ text = <<>>
    /\ intended = <<>>
    /\ candidate = [found |-> FALSE, s |-> <<>>]
    /\ fixed = <<>>
    /\ comment = NoComment
    /\ max_length = 0
    /\ posted = <<>>
    /\ stored = <<>>
    /\ fallback = <<>>
    /\ file_infos = FetchedInfos(files)
    /\ file_contents = ContentsOf(file_infos)
    /\ db_record_id = IF stored # <<>> /\ stored[1].saved THEN <<RecordId>> ELSE <<>>
    /\ input_state = NewState
    /\ job = NoJob

\* one call of the extractor on the reply for files[1]
Parse ==
    /\ pc = "parse"
    /\ record = <<>>
    /\ record' = <<parse_single_file_response(response, files[1], impl)>>
    /\ UNCHANGED <<impl, reviewVars, fetchVars, stateVars, jobVars, response, text,
                   intended, candidate, fixed, postVars>>

NextParse == Parse

SpecParse == InitParse /\ [][NextParse]_vars

RecordScores(r) == <<r.score, r.code_quality_score, r.security_score,
                     r.business_score, r.performance_score, r.best_practices_score>>

\* C3: the extractor is total: the record it returns has the filename, six
\* integer scores, a list of finding records, a list of positive-point
\* strings and a string summary.
C3_ExtractorRecordIsTyped ==
    record # <<>> =>
        LET r == record[1]
        IN  /\ r.filename = files[1]
            /\ \A k \in 1..6 : RecordScores(r)[k].t = "int"
            /\ \A k \in 1..Len(r.issues) : r.issues[k].t = "dict"
            /\ r.positive_points.t = "list"
            /\ \A k \in 1..Len(r.positive_points.items) :
                  r.positive_points.items[k].t = "str"
            /\ r.summary.t = "str"

\* the number a decoded value stands for, in tenths; an infinite float is
\* larger than every bound
IsNumber(raw) ==
    \/ raw.t \in {"int", "bool"}
    \/ raw.t = "float" /\ raw.s # "nan"
    \/ raw.t = "str" /\ ParseFloat(raw.s).t = "float" /\ ParseFloat(raw.s).s # "nan"
IsInfinite(raw) ==
    \/ raw.t = "float" /\ raw.s = "inf"
    \/ raw.t = "str" /\ ParseFloat(raw.s).t = "float" /\ ParseFloat(raw.s).s = "inf"
Tenths(raw) ==
    CASE raw.t \in {"int", "bool"} -> 10 * raw.n
      [] raw.t = "float" -> raw.n
      [] OTHER -> ParseFloat(raw.s).n

\* the raw value each of the six scores of the record is taken from
RawScores(o) == <<Get(o.overall_score, o.score), o.code_quality_score,
                  o.security_score, o.business_score, o.performance_score,
                  o.best_practices_score>>

\* C4: each of the six scores of the record is an integer in [0,100]; a value
\* below 0 becomes 0, a value above 100 becomes 100, a value that is no number
\* or is missing becomes the default.
C4_ScoresClampedOrDefault ==
    record # <<>> =>
        /\ \A k \in 1..6 :
              /\ RecordScores(record[1])[k].t = "int"
              /\ RecordScores(record[1])[k].n \in 0..100
        /\ response.kind = "json" =>
              \A k \in 1..6 :
                  LET raw == RawScores(response.obj)[k]
                      out == RecordScores(record[1])[k].n
                  IN  /\ (IsNumber(raw) /\ ~IsInfinite(raw) /\ Tenths(raw) < 0) => out = 0
                      /\ (IsNumber(raw) /\ (IsInfinite(raw) \/ Tenths(raw) > 1000))
                            => out = 100
                      /\ ~IsNumber(raw) => out = DefaultScore

-----------------------------------------------------------------------------
\* The reply as text.  A text is a sequence of atoms: every character the
\* patterns of the extractor tell apart is an atom of its own, a maximal run
\* of word characters (\w+) is one atom, Fence stands for three backquotes
\* and EscN for the two characters backslash n the newline repair writes.
\* The words of the model are numerals or hold no digit.

Q == "\""
NL == "\n"
SP == " "
BS == "\\"
SQ == "'"
Fence == "<fence>"
EscN == "\\n"

Punct == {"{", "}", "[", "]", ",", ":", "!", Q, NL, SP, BS, SQ, Fence, EscN}

NoText == <<>>

IsSpace(a) == a \in {SP, NL}
IsWord(a) == a \notin Punct

\* int(word) for the numerals of the model
NumeralValue ==
    ("0" :> 0) @@ ("1" :> 1) @@ ("2" :> 2) @@ ("5" :> 5) @@ ("40" :> 40) @@ ("45" :> 45)
    @@ ("60" :> 60) @@ ("75" :> 75) @@ ("80" :> 80) @@ ("85" :> 85) @@ ("90" :> 90)
    @@ ("100" :> 100) @@ ("250" :> 250)

IsDigits(a) == a \in DOMAIN NumeralValue

Least(S, none) == IF S = {} THEN none ELSE CHOOSE j \in S : \A k \in S : j <= k
Greatest(S, none) == IF S = {} THEN none ELSE CHOOSE j \in S : \A k \in S : j >= k

\* the index of the first atom at or after i that is no white space
SkipSpace(t, i) == Least({j \in i..Len(t) : ~IsSpace(t[j])}, Len(t) + 1)

Count(t, a) == Cardinality({j \in 1..Len(t) : t[j] = a})
Repeat(a, n) == [j \in 1..n |-> a]

\* str.strip()
Strip(t) ==
    LET ns == {j \in 1..Len(t) : ~IsSpace(t[j])}
    IN  IF ns = {} THEN <<>> ELSE SubSeq(t, Least(ns, 0), Greatest(ns, 0))

\* the atom a missing-comma pattern starts with: a double quote, (\d+),
\* (true|false), ] or }
IsTail(a, kind) ==
    CASE kind = "string" -> a = Q
      [] kind = "number" -> IsDigits(a)
      [] kind = "boolean" -> a \in {"true", "false"}
      [] OTHER -> a = kind

\* a missing-comma pattern matches at atom m: a tail atom, white space
\* holding a line break, a double quote
CommaMissingAt(t, m, kind) ==
    LET j == SkipSpace(t, m + 1)
    IN  /\ IsTail(t[m], kind)
        /\ j <= Len(t)
        /\ t[j] = Q
        /\ \E k \in (m + 1)..(j - 1) : t[k] = NL

RECURSIVE AddCommas(_, _, _)
\* re.sub(tail \s*\n\s*", tail ,\n    ", json_str) from atom i on: the
\* matches from left to right, none overlapping the one before
AddCommas(t, i, kind) ==
    LET m == Least({k \in i..Len(t) : CommaMissingAt(t, k, kind)}, 0)
    IN  IF m = 0 THEN SubSeq(t, i, Len(t))
        ELSE SubSeq(t, i, m) \o <<",", NL, SP, SP, SP, SP, Q>>
             \o AddCommas(t, SkipSpace(t, m + 1) + 1, kind)

RECURSIVE DropCommas(_, _, _)
\* re.sub(r',\s*}', '}', json_str) and re.sub(r',\s*]', ']', json_str)
DropCommas(t, i, closer) ==
    LET m == Least({k \in i..Len(t) :
                       /\ t[k] = ","
                       /\ SkipSpace(t, k + 1) <= Len(t)
                       /\ t[SkipSpace(t, k + 1)] = closer}, 0)
    IN  IF m = 0 THEN SubSeq(t, i, Len(t))
        ELSE SubSeq(t, i, m - 1) \o <<closer>>
             \o DropCommas(t, SkipSpace(t, m + 1) + 1, closer)

\* the appended closers: one } for every { without a }, then the same for ]
Complete(t) ==
    LET braces == Count(t, "{") - Count(t, "}")
        brackets == Count(t, "[") - Count(t, "]")
    IN  t \o Repeat("}", IF braces > 0 THEN braces ELSE 0)
          \o Repeat("]", IF brackets > 0 THEN brackets ELSE 0)

Closers == {",", "}", "]", ":"}

\* parsers.py: the pattern (?<=["\s])"(?=[^,}\]:]*[,}\]])(?![,}\]:]*") at
\* atom i: a double quote after a quote or white space, whose next closer is
\* no colon and which no quote follows (closers apart)
QuoteToEscapeAt(t, i) ==
    LET closer == Least({j \in (i + 1)..Len(t) : t[j] \in Closers}, 0)
        other == Least({j \in (i + 1)..Len(t) : t[j] \notin Closers}, 0)
    IN  /\ t[i] = Q
        /\ i > 1
        /\ t[i - 1] \in {Q, SP, NL}
        /\ closer # 0
        /\ t[closer] # ":"
        /\ ~(other # 0 /\ t[other] = Q)

RECURSIVE EscapeQuotes(_, _)
\* parsers.py: re.sub(<that pattern>, '\\"', json_str) from atom i on
EscapeQuotes(t, i) ==
    LET m == Least({k \in i..Len(t) : QuoteToEscapeAt(t, k)}, 0)
    IN  IF m = 0 THEN SubSeq(t, i, Len(t))
        ELSE SubSeq(t, i, m - 1) \o <<BS, Q>> \o EscapeQuotes(t, m + 1)

\* the lookbehind (?<=: ") and the lookahead (?="[,}]) of the newline repair
AfterColonQuote(t, s) == s > 3 /\ t[s - 3] = ":" /\ t[s - 2] = SP /\ t[s - 1] = Q
BeforeQuoteCloser(t, e) == e < Len(t) /\ t[e] = Q /\ t[e + 1] \in {",", "}"}

RECURSIVE EscapeNewlines(_, _)
\* parsers.py: re.sub(r'(?<=: ")(.*?)(?="[,}])', <\n to \\n>, s, DOTALL) from
\* atom p on: each span from a position after `: "` to the next quote that a
\* comma or a brace follows has its line breaks escaped
EscapeNewlines(t, p) ==
    LET s == Least({j \in p..Len(t) : AfterColonQuote(t, j)}, 0)
        e == Least({j \in (s + 1)..Len(t) : BeforeQuoteCloser(t, j)}, 0)
    IN  IF s = 0 \/ e = 0 THEN SubSeq(t, p, Len(t))
        ELSE SubSeq(t, p, s - 1)
             \o [j \in 1..(e - s) |-> IF t[s + j - 1] = NL THEN EscN ELSE t[s + j - 1]]
             \o EscapeNewlines(t, e)

\* r'(\w+):' matches at atom i: a word before a colon; the n of an escaped
\* line break belongs to the word that follows it
WordKeyAt(t, i) ==
    \/ (IsWord(t[i]) \/ t[i] = EscN) /\ i < Len(t) /\ t[i + 1] = ":"
    \/ t[i] = EscN /\ i + 1 < Len(t) /\ IsWord(t[i + 1]) /\ t[i + 2] = ":"

RECURSIVE QuoteKeys(_, _)
\* parsers.py: re.sub(r'(\w+):', r'"\1":', json_str) from atom i on
QuoteKeys(t, i) ==
    LET m == Least({k \in i..Len(t) : WordKeyAt(t, k)}, 0)
    IN  IF m = 0 THEN SubSeq(t, i, Len(t))
        ELSE SubSeq(t, i, m - 1)
             \o (IF t[m] # EscN THEN <<Q, t[m], Q, ":">> \o QuoteKeys(t, m + 2)
                 ELSE IF t[m + 1] = ":" THEN <<BS, Q, "n", Q, ":">> \o QuoteKeys(t, m + 2)
                 ELSE <<BS, Q, "n" \o t[m + 1], Q, ":">> \o QuoteKeys(t, m + 3))

RECURSIVE QuoteSingle(_, _)
\* parsers.py: re.sub(r"'([^']*)'", r'"\1"', json_str) from atom i on: a pair
\* of single quotes becomes a pair of double quotes
QuoteSingle(t, i) ==
    LET m == Least({k \in i..Len(t) : t[k] = SQ}, 0)
        j == Least({k \in (m + 1)..Len(t) : t[k] = SQ}, 0)
    IN  IF m = 0 \/ j = 0 THEN SubSeq(t, i, Len(t))
        ELSE SubSeq(t, i, m - 1) \o <<Q>> \o SubSeq(t, m + 1, j - 1) \o <<Q>>
             \o QuoteSingle(t, j + 1)

\* _fix_json_format of graph.py and ResponseParser._fix_json_format.  The
\* three substitutions that remove a code fence do nothing on the candidates
\* of the extractor, which neither start nor end with a fence.
fix_json_format(json_str, variant) ==
    LET a == IF variant = "service" THEN EscapeQuotes(json_str, 1) ELSE json_str
        b1 == AddCommas(a, 1, "string")
        b2 == AddCommas(b1, 1, "number")
        b3 == AddCommas(b2, 1, "boolean")
        b4 == AddCommas(b3, 1, "]")
        b5 == AddCommas(b4, 1, "}")
        c == DropCommas(DropCommas(b5, 1, "}"), 1, "]")
        d == IF variant = "service" THEN EscapeNewlines(c, 1) ELSE c
        e == Strip(d)
        f == IF e # <<>> /\ e[Len(e)] = "," THEN SubSeq(e, 1, Len(e) - 1) ELSE e
        g == Complete(f)
    IN  IF variant = "service" THEN QuoteSingle(QuoteKeys(g, 1), 1) ELSE g

-----------------------------------------------------------------------------
\* The candidate: the part of the reply the extractor hands to the decoder.

NoCandidate == [found |-> FALSE, s |-> <<>>]

\* group 1 of a fence pattern whose opening ends before atom `from`: \s*, the
\* shortest span, \s*, the next fence
FenceGroup(t, from) ==
    LET s == SkipSpace(t, from)
        k == Least({j \in s..Len(t) : t[j] = Fence}, 0)
        e == Greatest({j \in s..(k - 1) : ~IsSpace(t[j])}, s - 1)
    IN  IF k = 0 THEN NoCandidate ELSE [found |-> TRUE, s |-> SubSeq(t, s, e)]

\* r"```json\s*(.*?)\s*```"
JsonFenceMatch(t) ==
    LET i == Least({j \in 1..(Len(t) - 1) : t[j] = Fence /\ t[j + 1] = "json"}, 0)
    IN  IF i = 0 THEN NoCandidate ELSE FenceGroup(t, i + 2)

\* r"```\s*(.*?)\s*```"
FenceMatch(t) ==
    LET i == Least({j \in 1..Len(t) : t[j] = Fence}, 0)
    IN  IF i = 0 THEN NoCandidate ELSE FenceGroup(t, i + 1)

\* r"\{.*\}" with DOTALL, and response[find("{"):rfind("}") + 1]: the first {
\* to the last }
BraceMatch(t) ==
    LET a == Least({j \in 1..Len(t) : t[j] = "{"}, 0)
        b == Greatest({j \in 1..Len(t) : t[j] = "}"}, 0)
    IN  IF a # 0 /\ b > a THEN [found |-> TRUE, s |-> SubSeq(t, a, b)]
        ELSE NoCandidate

\* The first pattern that matches gives the candidate.  graph.py goes on to
\* the braces when the group it captured is empty, and strips the candidate;
\* ResponseParser._extract_json_from_response returns the empty group, which
\* its caller takes for no candidate.
extract_json_from_response(t, variant) ==
    LET m == IF JsonFenceMatch(t).found THEN JsonFenceMatch(t)
             ELSE IF FenceMatch(t).found THEN FenceMatch(t)
             ELSE BraceMatch(t)
    IN  IF variant = "graph"
        THEN IF m.found /\ m.s # <<>> THEN [found |-> TRUE, s |-> Strip(m.s)]
             ELSE IF BraceMatch(t).found
                  THEN [found |-> TRUE, s |-> Strip(BraceMatch(t).s)]
                  ELSE NoCandidate
        ELSE IF m.found /\ m.s # <<>> THEN m ELSE NoCandidate

-----------------------------------------------------------------------------
\* Decoding.  A decoded value is a scalar as above, [t |-> "list", items],
\* [t |-> "dict", members] with members a sequence of [k, v], or
\* [t |-> "set"].  mode is "json" for json.loads; for ast.literal_eval it is
\* "pytop" outside every bracket, where a line break ends the expression, and
\* "py" inside one.  No number of the texts has a sign, a fraction or an
\* exponent, and no backslash stands before a word.

Fail == [ok |-> FALSE, v |-> JNull, i |-> 0]
Got(v, i) == [ok |-> TRUE, v |-> v, i |-> i]

Dict(members) == [t |-> "dict", members |-> members]
PySet == [t |-> "set"]
Inner(mode) == IF mode = "json" THEN "json" ELSE "py"
Hashable(v) == v.t \notin {"list", "dict", "set"}

\* atom j is white space of the mode in a run that starts at atom i: Python
\* also skips a backslash before a line break, and a line break only inside
\* a bracket or after such a backslash
Skipped(t, i, j, mode) ==
    \/ t[j] = SP
    \/ t[j] = NL /\ (mode # "pytop" \/ (j > i /\ t[j - 1] = BS))
    \/ mode # "json" /\ t[j] = BS /\ j < Len(t) /\ t[j + 1] = NL

\* the first atom at or after i that is no white space of the mode
Skip(t, i, mode) == Least({j \in i..Len(t) : ~Skipped(t, i, j, mode)}, Len(t) + 1)

\* python_str = json_str.replace('true', 'True').replace('false', 'False')
\* .replace('null', 'None') rewrites the words inside strings too
PyWord(a, mode) ==
    IF mode = "json" THEN a
    ELSE CASE a = "true" -> "True"
           [] a = "false" -> "False"
           [] a = "null" -> "None"
           [] OTHER -> a

RECURSIVE OpenString(_, _, _, _)
RECURSIVE ReadString(_, _, _, _)
RECURSIVE ReadTriple(_, _, _, _)

\* the string literal whose opening quote stands before atom i; acc is the
\* content of the literals joined so far.  For Python two more quotes make
\* the opening of a triple-quoted literal.
OpenString(t, i, mode, acc) ==
    IF mode # "json" /\ i < Len(t) /\ t[i] = Q /\ t[i + 1] = Q
    THEN ReadTriple(t, i + 2, mode, acc)
    ELSE ReadString(t, i, mode, acc)

\* the rest of a literal from atom i on.  A raw line break ends both
\* decoders; Python joins adjacent literals and keeps a backslash it does
\* not know.
ReadString(t, i, mode, acc) ==
    IF i > Len(t) THEN Fail
    ELSE CASE t[i] = Q ->
                LET j == Skip(t, i + 1, mode)
                IN  IF mode # "json" /\ j <= Len(t) /\ t[j] = Q
                    THEN OpenString(t, j + 1, mode, acc)
                    ELSE Got(JStr(acc), i + 1)
           [] t[i] = NL -> Fail
           [] t[i] = EscN -> ReadString(t, i + 1, mode, acc \o NL)
           [] t[i] = BS ->
                IF i = Len(t) THEN Fail
                ELSE IF t[i + 1] \in {Q, BS} THEN ReadString(t, i + 2, mode, acc \o t[i + 1])
                ELSE IF mode = "json" THEN Fail
                ELSE IF t[i + 1] = SQ THEN ReadString(t, i + 2, mode, acc \o SQ)
                ELSE IF t[i + 1] = NL THEN ReadString(t, i + 2, mode, acc)
                ELSE ReadString(t, i + 1, mode, acc \o BS)
           [] OTHER -> ReadString(t, i + 1, mode, acc \o PyWord(t[i], mode))

\* the rest of a triple-quoted Python literal from atom i on: it ends at
\* three quotes in a row and may hold line breaks
ReadTriple(t, i, mode, acc) ==
    IF i > Len(t) THEN Fail
    ELSE CASE t[i] = Q ->
                IF i + 2 <= Len(t) /\ t[i + 1] = Q /\ t[i + 2] = Q
                THEN LET j == Skip(t, i + 3, mode)
                     IN  IF j <= Len(t) /\ t[j] = Q
                         THEN OpenString(t, j + 1, mode, acc)
                         ELSE Got(JStr(acc), i + 3)
                ELSE ReadTriple(t, i + 1, mode, acc \o Q)
           [] t[i] = EscN -> ReadTriple(t, i + 1, mode, acc \o NL)
           [] t[i] = BS ->
                IF i = Len(t) THEN Fail
                ELSE IF t[i + 1] \in {Q, BS, SQ} THEN ReadTriple(t, i + 2, mode, acc \o t[i + 1])
                ELSE IF t[i + 1] = NL THEN ReadTriple(t, i + 2, mode, acc)
                ELSE ReadTriple(t, i + 1, mode, acc \o BS)
           [] OTHER -> ReadTriple(t, i + 1, mode, acc \o PyWord(t[i], mode))

RECURSIVE ParseValue(_, _, _)
RECURSIVE ParseMembers(_, _, _, _)
RECURSIVE ParseItems(_, _, _, _)
RECURSIVE ParseSetItems(_, _, _)

\* the value that starts at the first atom at or after i0
ParseValue(t, i0, mode) ==
    LET i == Skip(t, i0, mode)
    IN  IF i > Len(t) THEN Fail
        ELSE CASE t[i] = Q -> OpenString(t, i + 1, mode, "")
               [] t[i] = "[" ->
                    IF Skip(t, i + 1, Inner(mode)) <= Len(t)
                       /\ t[Skip(t, i + 1, Inner(mode))] = "]"
                    THEN Got(List(<<>>), Skip(t, i + 1, Inner(mode)) + 1)
                    ELSE ParseItems(t, i + 1, Inner(mode), <<>>)
               [] t[i] = "{" ->
                    LET j == Skip(t, i + 1, Inner(mode))
                        first == ParseValue(t, j, Inner(mode))
                        after == Skip(t, first.i, Inner(mode))
                    IN  IF j <= Len(t) /\ t[j] = "}" THEN Got(Dict(<<>>), j + 1)
                        ELSE IF mode # "json" /\ first.ok /\ after <= Len(t)
                                /\ t[after] \in {",", "}"}
                             THEN ParseSetItems(t, j, Inner(mode))
                        ELSE ParseMembers(t, j, Inner(mode), <<>>)
               [] IsDigits(t[i]) -> Got(JInt(NumeralValue[t[i]]), i + 1)
               [] t[i] = "true" \/ (mode # "json" /\ t[i] = "True") ->
                    Got(JBool(TRUE), i + 1)
               [] t[i] = "false" \/ (mode # "json" /\ t[i] = "False") ->
                    Got(JBool(FALSE), i + 1)
               [] t[i] = "null" \/ (mode # "json" /\ t[i] = "None") ->
                    Got(JNull, i + 1)
               [] OTHER -> Fail

\* the members of an object from atom i on, after { or a comma: a key (a
\* string for JSON, a hashable value for Python), a colon, a value, then a
\* comma or the closing brace; Python allows a comma before the brace
ParseMembers(t, i, mode, acc) ==
    LET key == ParseValue(t, i, mode)
        colon == Skip(t, key.i, mode)
        val == ParseValue(t, colon + 1, mode)
        next == Skip(t, val.i, mode)
        more == Skip(t, next + 1, mode)
        members == Append(acc, [k |-> key.v, v |-> val.v])
    IN  IF ~key.ok \/ (mode = "json" /\ key.v.t # "str") \/ ~Hashable(key.v) THEN Fail
        ELSE IF colon > Len(t) \/ t[colon] # ":" THEN Fail
        ELSE IF ~val.ok \/ next > Len(t) THEN Fail
        ELSE IF t[next] = "}" THEN Got(Dict(members), next + 1)
        ELSE IF t[next] # "," THEN Fail
        ELSE IF mode # "json" /\ more <= Len(t) /\ t[more] = "}"
             THEN Got(Dict(members), more + 1)
        ELSE ParseMembers(t, next + 1, mode, members)

\* the elements of an array from atom i on, after [ or a comma
ParseItems(t, i, mode, acc) ==
    LET val == ParseValue(t, i, mode)
        next == Skip(t, val.i, mode)
        more == Skip(t, next + 1, mode)
    IN  IF ~val.ok \/ next > Len(t) THEN Fail
        ELSE IF t[next] = "]" THEN Got(List(Append(acc, val.v)), next + 1)
        ELSE IF t[next] # "," THEN Fail
        ELSE IF mode # "json" /\ more <= Len(t) /\ t[more] = "]"
             THEN Got(List(Append(acc, val.v)), more + 1)
        ELSE ParseItems(t, next + 1, mode, Append(acc, val.v))

\* the elements of a Python set display from atom i on
ParseSetItems(t, i, mode) ==
    LET val == ParseValue(t, i, mode)
        next == Skip(t, val.i, mode)
        more == Skip(t, next + 1, mode)
    IN  IF ~val.ok \/ ~Hashable(val.v) \/ next > Len(t) THEN Fail
        ELSE IF t[next] = "}" THEN Got(PySet, next + 1)
        ELSE IF t[next] # "," THEN Fail
        ELSE IF more <= Len(t) /\ t[more] = "}" THEN Got(PySet, more + 1)
        ELSE ParseSetItems(t, next + 1, mode)

\* json.loads(s): the value, when nothing but white space follows it
json_loads(t) ==
    LET r == ParseValue(t, 1, "json")
    IN  IF r.ok /\ Skip(t, r.i, "json") > Len(t) THEN r ELSE Fail

RECURSIVE TupleRest(_, _)
\* the rest of a Python tuple from atom i on, after a comma
TupleRest(t, i) ==
    LET j == Skip(t, i, "pytop")
        val == ParseValue(t, j, "pytop")
        next == Skip(t, val.i, "pytop")
    IN  IF Skip(t, j, "py") > Len(t) THEN TRUE
        ELSE IF ~val.ok THEN FALSE
        ELSE IF Skip(t, next, "py") > Len(t) THEN TRUE
        ELSE IF t[next] # "," THEN FALSE
        ELSE TupleRest(t, next + 1)

\* ast.literal_eval(python_str): a value, or a tuple of values
literal_eval(t) ==
    LET r == ParseValue(t, 1, "pytop")
        next == Skip(t, r.i, "pytop")
    IN  IF ~r.ok THEN Fail
        ELSE IF Skip(t, next, "py") > Len(t) THEN r
        ELSE IF t[next] = "," /\ TupleRest(t, next + 1) THEN Got([t |-> "tuple"], Len(t) + 1)
        ELSE Fail

RECURSIVE DropCommaBeforeCloser(_, _)
\* _try_parse_json: re.sub(r',(\s*[}\]])', r'\1', json_str) from atom i on
DropCommaBeforeCloser(t, i) ==
    LET m == Least({k \in i..Len(t) :
                       /\ t[k] = ","
                       /\ SkipSpace(t, k + 1) <= Len(t)
                       /\ t[SkipSpace(t, k + 1)] \in {"}", "]"}}, 0)
    IN  IF m = 0 THEN SubSeq(t, i, Len(t))
        ELSE SubSeq(t, i, m - 1) \o DropCommaBeforeCloser(t, m + 1)

\* ResponseParser._try_parse_json: json.loads; json.loads without the commas
\* before a closer; json.loads of the longest prefix that has as many { as }
\* and decodes; ast.literal_eval.  ok = FALSE is the None it returns.
try_parse_json(t) ==
    LET prefixes == {i \in 1..Len(t) :
                        /\ Count(SubSeq(t, 1, i), "{") = Count(SubSeq(t, 1, i), "}")
                        /\ json_loads(SubSeq(t, 1, i)).ok}
    IN  IF json_loads(t).ok THEN json_loads(t)
        ELSE IF json_loads(DropCommaBeforeCloser(t, 1)).ok
             THEN json_loads(DropCommaBeforeCloser(t, 1))
        ELSE IF prefixes # {} THEN json_loads(SubSeq(t, 1, Greatest(prefixes, 0)))
        ELSE literal_eval(t)

\* the decoded value under a key of a decoded object: the last member with
\* that key, as dict.get(key) gives it
Lookup(members, key) ==
    LET at == Greatest({j \in 1..Len(members) : members[j].k = JStr(key)}, 0)
    IN  IF at = 0 THEN <<>> ELSE <<members[at].v>>

\* a decoded value in the place of a scalar: a collection keeps its type only
Scalar(v) == IF v.t \in {"list", "dict", "set"} THEN [t |-> v.t, n |-> 0, s |-> ""] ELSE v

Field(members, key) ==
    IF Lookup(members, key) = <<>> THEN Missing ELSE Scalar(Lookup(members, key)[1])

\* an element of the issues array
IssueOf(v) ==
    IF v.t # "dict" THEN [NotADict EXCEPT !.t = v.t]
    ELSE [t |-> "dict", type |-> Field(v.members, "type"),
          title |-> Field(v.members, "title"),
          description |-> Field(v.members, "description"),
          line |-> Field(v.members, "line"),
          line_start |-> Field(v.members, "line_start"),
          suggestion |-> Field(v.members, "suggestion"),
          severity |-> Field(v.members, "severity"),
          category |-> Field(v.members, "category")]

\* the result dict of a decoded JSON object
ObjOf(d) ==
    LET m == d.members
        issues == Lookup(m, "issues")
        points == Lookup(m, "positive_points")
    IN  Obj(Field(m, "overall_score"), Field(m, "score"), Field(m, "code_quality_score"),
            Field(m, "security_score"), Field(m, "business_score"),
            Field(m, "performance_score"), Field(m, "best_practices_score"),
            IF issues = <<>> THEN MissingList
            ELSE IF issues[1].t # "list" THEN NonList(issues[1].t)
            ELSE List([j \in 1..Len(issues[1].items) |-> IssueOf(issues[1].items[j])]),
            IF points = <<>> THEN MissingList
            ELSE IF points[1].t # "list" THEN NonList(points[1].t)
            ELSE List([j \in 1..Len(points[1].items) |-> Scalar(points[1].items[j])]),
            Field(m, "summary"))

-----------------------------------------------------------------------------
\* The patterns of _extract_info_with_regex on the text of the reply.

RECURSIVE Concat(_)
Concat(t) ==
    IF t = <<>> THEN ""
    ELSE IF Len(t) = 1 THEN t[1]
    ELSE Concat(SubSeq(t, 1, Len(t) \div 2)) \o Concat(SubSeq(t, Len(t) \div 2 + 1, Len(t)))

\* "key": at atom i
QuotedKeyAt(t, i, key) ==
    /\ i + 3 <= Len(t)
    /\ t[i] = Q /\ t[i + 1] = key /\ t[i + 2] = Q /\ t[i + 3] = ":"

\* r'"key":\s*(\d+)': the digits after the first key a number follows
FoundScore(t, key) ==
    LET at == Least({i \in 1..Len(t) :
                        /\ QuotedKeyAt(t, i, key)
                        /\ SkipSpace(t, i + 4) <= Len(t)
                        /\ IsDigits(t[SkipSpace(t, i + 4)])}, 0)
    IN  IF at = 0 THEN Missing ELSE JInt(NumeralValue[t[SkipSpace(t, at + 4)]])

\* r'"key":\s*"([^"]*)"' at atom i: the key, a quote, the atoms up to the next quote
QuotedAt(t, i, key) ==
    LET open == SkipSpace(t, i + 4)
        close == Least({j \in (open + 1)..Len(t) : t[j] = Q}, 0)
    IN  IF QuotedKeyAt(t, i, key) /\ open <= Len(t) /\ t[open] = Q /\ close # 0
        THEN [ok |-> TRUE, s |-> Concat(SubSeq(t, open + 1, close - 1)), end |-> close + 1]
        ELSE [ok |-> FALSE, s |-> "", end |-> 0]

\* the first match of the pattern at or after atom p
FirstQuoted(t, p, key) ==
    LET at == Least({i \in p..Len(t) : QuotedAt(t, i, key).ok}, 0)
    IN  IF at = 0 THEN [ok |-> FALSE, s |-> "", end |-> 0] ELSE QuotedAt(t, at, key)

RECURSIVE FoundPairs(_, _)
\* re.findall(r'"title":\s*"([^"]*)".*?"description":\s*"([^"]*)"', response,
\* re.DOTALL) from atom p on
FoundPairs(t, p) ==
    LET title == FirstQuoted(t, p, "title")
        description == FirstQuoted(t, title.end, "description")
    IN  IF ~title.ok \/ ~description.ok THEN <<>>
        ELSE <<IssueDict(Missing, JStr(title.s), JStr(description.s), Missing, Missing,
                         Missing, Missing)>>
             \o FoundPairs(t, description.end)

RECURSIVE FoundQuoted(_, _)
\* re.findall(r'"([^"]*)"', positive_content) from atom p on
FoundQuoted(t, p) ==
    LET open == Least({j \in p..Len(t) : t[j] = Q}, 0)
        close == Least({j \in (open + 1)..Len(t) : t[j] = Q}, 0)
    IN  IF open = 0 \/ close = 0 THEN <<>>
        ELSE <<JStr(Concat(SubSeq(t, open + 1, close - 1)))>> \o FoundQuoted(t, close + 1)

\* r'"positive_points":\s*\[(.*?)\]' with DOTALL
FoundPoints(t) ==
    LET at == Least({i \in 1..Len(t) :
                        /\ QuotedKeyAt(t, i, "positive_points")
                        /\ SkipSpace(t, i + 4) <= Len(t)
                        /\ t[SkipSpace(t, i + 4)] = "["
                        /\ \E j \in (SkipSpace(t, i + 4) + 1)..Len(t) : t[j] = "]"}, 0)
        open == SkipSpace(t, at + 4)
        close == Least({j \in (open + 1)..Len(t) : t[j] = "]"}, 0)
    IN  IF at = 0 THEN MissingList
        ELSE List(FoundQuoted(SubSeq(t, open + 1, close - 1), 1))

\* a chain of patterns, each tried only when the overall score was found
found_in_text_after_score(t) ==
    LET scored == FoundScore(t, "overall_score") # Missing
    IN  Obj(FoundScore(t, "overall_score"), Missing, FoundScore(t, "code_quality_score"),
            FoundScore(t, "security_score"), FoundScore(t, "business_score"),
            FoundScore(t, "performance_score"), FoundScore(t, "best_practices_score"),
            IF scored THEN List(FoundPairs(t, 1)) ELSE List(<<>>),
            IF scored THEN FoundPoints(t) ELSE MissingList,
            IF scored /\ FirstQuoted(t, 1, "summary").ok
            THEN JStr(FirstQuoted(t, 1, "summary").s)
            ELSE Missing)

\* what the patterns find in the text: Missing for a pattern with no match
found_in_text(t) ==
    Obj(FoundScore(t, "overall_score"), Missing, FoundScore(t, "code_quality_score"),
        FoundScore(t, "security_score"), FoundScore(t, "business_score"),
        FoundScore(t, "performance_score"), FoundScore(t, "best_practices_score"),
        List(FoundPairs(t, 1)), FoundPoints(t),
        IF FirstQuoted(t, 1, "summary").ok THEN JStr(FirstQuoted(t, 1, "summary").s)
        ELSE Missing)

\* a front that gives up when the reply holds no candidate
decode_candidate_without_patterns(t, c, repaired, variant) ==
    LET r == IF variant = "graph" THEN json_loads(repaired) ELSE try_parse_json(repaired)
    IN  IF ~c.found THEN NonDict
        ELSE IF ~r.ok \/ (variant = "service" /\ r.v.t = "null")
             THEN Regex(found_in_text(t))
        ELSE IF r.v.t = "dict" THEN Json(ObjOf(r.v))
        ELSE NonDict

\* The front of _parse_single_file_response for the reply t, its candidate c
\* and the repaired candidate: json.loads, or the patterns on the reply when
\* there is no candidate or it does not decode.  graph.py takes a decoded
\* value that is no dict as it is (and fails on it); the service takes the
\* None of _try_parse_json, a decoded null included, for a failure and goes
\* on to the patterns.
decode_candidate(t, c, repaired, variant) ==
    LET r == IF variant = "graph" THEN json_loads(repaired) ELSE try_parse_json(repaired)
    IN  IF ~c.found THEN Regex(found_in_text(t))
        ELSE IF ~r.ok \/ (variant = "service" /\ r.v.t = "null")
             THEN Regex(found_in_text(t))
        ELSE IF r.v.t = "dict" THEN Json(ObjOf(r.v))
        ELSE NonDict
-----------------------------------------------------------------------------
\* Replies as text: the inputs of the text-level extractor.

Key(k) == <<Q, k, Q, ":", SP>>
Str(content) == <<Q>> \o content \o <<Q>>

\* what a string value of a reply may hold
Contents ==
    { <<"needs", SP, "work">>,
      <<"use", SP, "{", "a", ",", "}">>,
      <<"list", SP, "[", "a", ",", SP, "]">>,
      <<"open", SP, "{">>,
      <<"note", ":", SP, "ok">>,
      <<"a", ",", SP, "b">>,
      <<"say", SP, BS, Q, "hi", BS, Q>>,
      <<"rated", SP, "5">>,
      <<"line", EscN, "two">> }

PlainContent == <<"needs", SP, "work">>

IssueText ==
    <<"{">> \o Key("title") \o Str(<<"leak">>) \o <<",", SP>>
    \o Key("description") \o Str(<<"closes", SP, "late">>) \o <<",", SP>>
    \o Key("severity") \o Str(<<"warning">>) \o <<",", SP>>
    \o Key("category") \o Str(<<"performance">>) \o <<"}">>

\* the members of a schema-conforming reply whose summary holds c: a string,
\* a number, a boolean, an array and an object value, each followed by a
\* further member
Members(c, withIssues) ==
    <<Key("summary") \o Str(c),
      Key("overall_score") \o <<"85">>,
      Key("approved") \o <<"true">>,
      Key("positive_points") \o <<"[">> \o Str(<<"tests">>) \o <<"]">>,
      Key("meta") \o <<"{">> \o Key("lang") \o Str(<<"py">>) \o <<"}">>,
      Key("security_score") \o <<"90">>>>
    \o (IF withIssues THEN <<Key("issues") \o <<"[">> \o IssueText \o <<"]">>>> ELSE <<>>)

RECURSIVE Joined(_, _, _, _)
\* members i.. of ms, one per line when pretty; the comma after member
\* number `gap` is left out
Joined(ms, i, pretty, gap) ==
    IF i > Len(ms) THEN <<>>
    ELSE ms[i]
         \o (IF i = Len(ms) THEN <<>>
             ELSE (IF i = gap THEN <<>> ELSE <<",">>)
                  \o (IF pretty THEN <<NL, SP, SP>> ELSE <<SP>>))
         \o Joined(ms, i + 1, pretty, gap)

\* the JSON object of the members; dangling puts a comma before the closing
\* brace
ObjectText(ms, pretty, gap, dangling) ==
    <<"{">> \o (IF pretty THEN <<NL, SP, SP>> ELSE <<>>)
    \o Joined(ms, 1, pretty, gap)
    \o (IF dangling THEN <<",">> ELSE <<>>)
    \o (IF pretty THEN <<NL>> ELSE <<>>) \o <<"}">>

\* replies that are valid, schema-conforming JSON: text and intended text
ValidTexts ==
    { [text |-> ObjectText(Members(c, w), p, 0, FALSE),
       intended |-> ObjectText(Members(c, w), p, 0, FALSE)] :
        c \in Contents, w \in BOOLEAN, p \in BOOLEAN }

\* replies whose only defects are a missing comma between two members on
\* consecutive lines or a dangling comma before the closing brace
DefectiveTexts ==
    { [text |-> ObjectText(Members(c, FALSE), TRUE, g, d),
       intended |-> ObjectText(Members(c, FALSE), TRUE, 0, FALSE)] :
        c \in {PlainContent, <<"use", SP, "{", "a", ",", "}">>},
        g \in 0..5, d \in BOOLEAN } \ ValidTexts

\* replies of prose, some with a pair of braces or a fenced block
ProseTexts ==
    { [text |-> t, intended |-> NoText] :
        t \in { <<"Looks", SP, "good", "!">>,
                <<"The", SP, "code", SP, "is", SP, "fine", "!", NL, "No", SP, "issues", "!">>,
                <<"I", SP, "rate", SP, "it", SP, "85", "!">>,
                <<"use", SP, "{", "}", SP, "here">>,
                <<"see", SP, "{", "a", "}">>,
                <<Fence, NL, "5", NL, Fence>>,
                <<>> } }

\* what the fields of a reply that does not decode may be: the members
\* follow each other without a comma on one line
FieldTexts ==
    <<Key("overall_score") \o <<"250">>,
      Key("security_score") \o <<"40">>,
      Key("summary") \o Str(PlainContent),
      Key("title") \o Str(<<"leak">>) \o <<SP>> \o Key("description") \o Str(<<"late">>),
      Key("positive_points") \o <<"[">> \o Str(<<"tests">>) \o <<"]">>>>

RECURSIVE Chosen(_, _)
Chosen(S, i) ==
    IF i > Len(FieldTexts) THEN <<>>
    ELSE (IF i \in S THEN <<FieldTexts[i]>> ELSE <<>>) \o Chosen(S, i + 1)

BrokenTexts ==
    { [text |-> <<"{", "!", SP>> \o Joined(Chosen(S, 1), 1, FALSE, 1) \o <<SP, "!">>,
       intended |-> NoText] : S \in SUBSET (1..Len(FieldTexts)) }

TextInputs == ValidTexts \cup DefectiveTexts \cup ProseTexts \cup BrokenTexts

InitText ==
    /\ impl \in {"graph", "service"}
    /\ files \in {<<f>> : f \in Filenames}
    /\ pc = "parse"
    /\ task = <<"new">>
    /\ replies = <<<<>>>>
    /\ results = <<<<>>>>
    /\ calls = <<0>>
    /\ file_reviews = <<>>
    /\ enhanced_analysis = <<>>
    /\ overall_summary = NoSummary
    /\ response = NonDict
    /\ record = <<>>
    /\ \E x \in TextInputs : text = x.text /\ intended = x.intended
    /\ candidate = NoCandidate
    /\ fixed = NoText
    /\ comment = NoComment
    /\ max_length = 0
    /\ posted = <<>>
    /\ stored = <<>>
    /\ fallback = <<>>
    /\ file_infos = FetchedInfos(files)
    /\ file_contents = ContentsOf(file_infos)
    /\ db_record_id = IF stored # <<>> /\ stored[1].saved THEN <<RecordId>> ELSE <<>>
    /\ input_state = NewState
    /\ job = NoJob

\* one call of the extractor on the reply text for files[1]
ParseText ==
    /\ pc = "parse"
    /\ record = <<>>
    /\ candidate' = extract_json_from_response(text, impl)
    /\ fixed' = IF candidate'.found THEN fix_json_format(candidate'.s, impl) ELSE NoText
    /\ response' = decode_candidate(text, candidate', fixed', impl)
    /\ record' = <<parse_single_file_response(response', files[1], impl)>>
    /\ UNCHANGED <<impl, reviewVars, fetchVars, stateVars, jobVars, text, intended,
                   postVars>>

NextText == ParseText

SpecText == InitText /\ [][NextText]_vars

-----------------------------------------------------------------------------
\* Publishing the report: PlatformProvider.post_pr_comments_batch and
\* _split_comment.  The report is the sequence of the lengths of its lines
\* (comment.split('\n')); a part is a sequence of pieces, each a span of one
\* line, joined by line breaks; dots marks a chunk that got "..." appended.

ReservedForHeader == 100

Piece(i, from, to, dots) == [line |-> i, from |-> from, to |-> to, dots |-> dots]

RECURSIVE PartLen(_)
PartLen(part) ==
    IF part = <<>> THEN 0
    ELSE LET p == Head(part)
         IN  (p.to - p.from) + (IF p.dots THEN 3 ELSE 0)
             + (IF Tail(part) = <<>> THEN 0 ELSE 1 + PartLen(Tail(part)))

\* len(comment)
CommentLen(lines) == SumSeq(lines) + Len(lines) - 1

\* the forced cut of one line into chunks of chunk_size characters
RECURSIVE Chunks(_, _, _, _)
Chunks(i, from, len, chunk_size) ==
    IF from >= len THEN <<>>
    ELSE <<<<Piece(i, from, IF from + chunk_size < len THEN from + chunk_size ELSE len,
                   from + chunk_size < len)>>>>
         \o Chunks(i, from + chunk_size, len, chunk_size)

\* the loop of _split_comment from line i on; current = <<>> is the empty
\* string current_part
RECURSIVE SplitFrom(_, _, _, _, _)
SplitFrom(lines, i, parts, current, usable) ==
    IF i > Len(lines)
    THEN IF current # <<>> THEN Append(parts, current) ELSE parts
    ELSE LET line == lines[i]
             whole == IF line = 0 /\ current = <<>> THEN <<>>
                      ELSE Append(current, Piece(i, 0, line, FALSE))
             alone == IF line = 0 THEN <<>> ELSE <<Piece(i, 0, line, FALSE)>>
             test_len == IF current = <<>> THEN line ELSE PartLen(current) + 1 + line
         IN  IF test_len <= usable
             THEN SplitFrom(lines, i + 1, parts, whole, usable)
             ELSE IF current # <<>>
                  THEN SplitFrom(lines, i + 1, Append(parts, current), alone, usable)
                  ELSE IF line > usable
                       THEN SplitFrom(lines, i + 1,
                                      parts \o Chunks(i, 0, line, usable), <<>>, usable)
                       ELSE SplitFrom(lines, i + 1, parts, alone, usable)

AllLines(lines) == [i \in 1..Len(lines) |-> Piece(i, 0, lines[i], FALSE)]

\* _split_comment(comment, max_length)
split_comment(lines, max_len) ==
    IF CommentLen(lines) <= max_len THEN <<AllLines(lines)>>
    ELSE SplitFrom(lines, 1, <<>>, <<>>, max_len - ReservedForHeader)

Digits(n) == IF n < 10 THEN 1 ELSE IF n < 100 THEN 2 ELSE 3

\* len of the header "**<memo> code review report (i/n)**" and its two line breaks
HeaderLen(i, n) == 18 + Digits(i) + Digits(n)

\* the comments post_pr_comments_batch hands to post_pr_comment, in order
comments_to_post(lines, max_len) ==
    IF CommentLen(lines) <= max_len
    THEN <<[len |-> CommentLen(lines), part |-> AllLines(lines), index |-> 1, of |-> 1]>>
    ELSE LET comment_parts == split_comment(lines, max_len)
             n == Len(comment_parts)
         IN  [i \in 1..n |->
                [len |-> PartLen(comment_parts[i])
                         + (IF n > 1 THEN HeaderLen(i, n) ELSE 0),
                 part |-> comment_parts[i], index |-> i, of |-> n]]

\* the number of findings of severity critical, per file result
CriticalCounts(frs) ==
    [i \in 1..Len(frs) |->
        Cardinality({k \in 1..Len(frs[i].issues) : frs[i].issues[k].severity = "critical"})]

\* _create_fallback_comment.  The text is held as the numbers it shows: a field
\* is <<n>> when the text has a line showing n and <<>> when it has no such
\* line.  graph.py shows the critical count only when it is positive and the
\* score only when there is an aggregate; the service returns a fixed text
\* that shows no number at all.
create_fallback_comment(frs, ea, variant) ==
    IF variant = "graph"
    THEN [files |-> <<Len(frs)>>,
          issues |-> <<SumSeq(IssueCounts(frs))>>,
          critical |-> IF SumSeq(CriticalCounts(frs)) > 0
                       THEN <<SumSeq(CriticalCounts(frs))>> ELSE <<>>,
          score |-> IF ea # <<>> THEN <<ea[1].overall_score>> ELSE <<>>]
    ELSE [files |-> <<>>, issues |-> <<>>, critical |-> <<>>, score |-> <<>>]

\* the budgets the callers pass: 4000 by default, 3000 for gitee, 8000 for github
Budgets == {3000, 4000, 8000}

\* line lengths around the usable budget of max_len
LineLens(max_len) == {0, 40, max_len - ReservedForHeader, max_len - ReservedForHeader + 1,
                      max_len + 500}

Reports(max_len) == UNION {[1..n -> LineLens(max_len)] : n \in 1..MaxLines}

\* the reports of the pipeline runs: a short one, published as one comment,
\* and one of two full lines, published in two parts
PipelineReports(max_len) ==
    {<<40>>, <<max_len - ReservedForHeader, max_len - ReservedForHeader>>}

\* post_review_comment, first step: the review result is handed to
\* DatabaseManager.save_complete_review_result inside a try; an exception of
\* the store is logged and the function goes on (saved = FALSE)
SaveResult ==
    /\ pc = "done"
    /\ \E saved, handed_returned \in BOOLEAN :
          /\ stored' = <<[enhanced_analysis |-> enhanced_analysis,
                       file_reviews |-> file_reviews, saved |-> saved]>>
          /\ db_record_id' = IF saved THEN <<RecordId>> ELSE db_record_id
          /\ input_state' = IF saved /\ handed_returned /\ ReturnedIsInput
                            THEN [input_state EXCEPT !.db_record_id = <<RecordId>>]
                            ELSE input_state
    /\ pc' = "saved"
    /\ UNCHANGED <<impl, files, task, replies, results, calls, file_reviews,
                   enhanced_analysis, overall_summary, fetchVars, jobVars, parseVars,
                   comment, max_length, posted, fallback>>

\* the report is formatted and the budget of the platform chosen
FormatReport ==
    /\ pc = "saved"
    /\ \E budget \in Budgets :
          /\ max_length' = budget
          /\ comment' \in PipelineReports(budget)
    /\ pc' = "post"
    /\ UNCHANGED <<impl, files, task, replies, results, calls, file_reviews,
                   enhanced_analysis, overall_summary, fetchVars, stateVars, jobVars,
                   parseVars, posted, stored, fallback>>

\* the same step, for reports of every shape
FormatAnyReport ==
    /\ pc = "saved"
    /\ \E budget \in Budgets :
          /\ max_length' = budget
          /\ comment' \in Reports(budget)
    /\ pc' = "post"
    /\ UNCHANGED <<impl, files, task, replies, results, calls, file_reviews,
                   enhanced_analysis, overall_summary, fetchVars, stateVars, jobVars,
                   parseVars, posted, stored, fallback>>

\* a batch that stops at the first part whose publish raises
PostBatchStoppingAtFailure ==
    /\ pc = "post"
    /\ LET todo == comments_to_post(comment, max_length)
       IN  \E failed \in SUBSET (1..Len(todo)) :
              LET last == IF failed = {} THEN Len(todo)
                          ELSE CHOOSE i \in failed : \A j \in failed : i <= j
              IN  /\ posted' = [i \in 1..last |->
                                  [len |-> todo[i].len, part |-> todo[i].part,
                                   index |-> todo[i].index, of |-> todo[i].of,
                                   error |-> i \in failed]]
                  /\ pc' = IF CommentLen(comment) <= max_length /\ failed # {}
                           THEN "fallback" ELSE "end"
    /\ UNCHANGED <<impl, files, task, replies, results, calls, file_reviews,
                   enhanced_analysis, overall_summary, fetchVars, stateVars, jobVars,
                   parseVars, comment, max_length, stored, fallback>>

\* post_pr_comments_batch, called by post_review_comment inside a try.  A
\* report within the budget is handed to post_pr_comment as it is, outside
\* any try of the batch: if that call raises, the batch raises and the caller
\* goes to its fallback.  The parts of a longer report are handed over in
\* order, each inside a try: a call that raises leaves an error entry and the
\* loop goes on, the batch returns normally (failed says which calls raise).
PostBatch ==
    /\ pc = "post"
    /\ LET todo == comments_to_post(comment, max_length)
       IN  \E failed \in SUBSET (1..Len(todo)) :
              /\ posted' = [i \in 1..Len(todo) |->
                              [len |-> todo[i].len, part |-> todo[i].part,
                               index |-> todo[i].index, of |-> todo[i].of,
                               error |-> i \in failed]]
              /\ pc' = IF CommentLen(comment) <= max_length /\ failed # {}
                       THEN "fallback" ELSE "end"
    /\ UNCHANGED <<impl, files, task, replies, results, calls, file_reviews,
                   enhanced_analysis, overall_summary, fetchVars, stateVars, jobVars,
                   parseVars, comment, max_length, stored, fallback>>

\* the except branch of the caller with no try around the fallback publish
PublishFallbackUnguarded ==
    /\ pc = "fallback"
    /\ \E failed \in BOOLEAN :
          /\ fallback' = <<[text |-> create_fallback_comment(file_reviews,
                                                             enhanced_analysis, impl),
                            error |-> failed]>>
          /\ pc' = IF failed THEN "raised" ELSE "end"
    /\ UNCHANGED <<impl, files, task, replies, results, calls, file_reviews,
                   enhanced_analysis, overall_summary, fetchVars, stateVars, jobVars,
                   parseVars, comment, max_length, posted, stored>>

\* the except branch of post_review_comment / _publish_fallback_comment: the
\* fallback text is handed to post_pr_comment once, inside a try; whether or
\* not that call raises, the function returns the state
PublishFallback ==
    /\ pc = "fallback"
    /\ \E failed \in BOOLEAN :
          fallback' = <<[text |-> create_fallback_comment(file_reviews,
                                                          enhanced_analysis, impl),
                         error |-> failed]>>
    /\ pc' = "end"
    /\ UNCHANGED <<impl, files, task, replies, results, calls, file_reviews,
                   enhanced_analysis, overall_summary, fetchVars, stateVars, jobVars,
                   parseVars, comment, max_length, posted, stored>>

\* the workflow: fetch -> intelligent_code_review -> post_review_comment -> END
Next ==
    \/ ReviewEmpty
    \/ StartTasks
    \/ \E i \in 1..Len(files) : CallModel(i)
    \/ \E i \in 1..Len(files) : Settle(i)
    \/ Join
    \/ SaveResult
    \/ FormatReport
    \/ PostBatch
    \/ PublishFallback

Spec == Init /\ [][Next]_vars

-----------------------------------------------------------------------------
\* post_review_comment on its own, entered with the states the review stage
\* can leave and publishing reports of every shape.

CriticalIssue == IssueDict(JStr("error"), JStr("hardcoded secret"), JStr("key in source"),
                           JInt(3), JStr("use a vault"), JStr("critical"),
                           JStr("security"))

\* the replies behind the entry states: an empty batch, a good file, a file
\* with a critical finding next to a failed call, and a reply whose
\* conversion fails
PostInputs ==
    { <<>>,
      <<Json(BaseObj)>>,
      <<Json([BaseObj EXCEPT !.issues = List(<<CriticalIssue, GoodIssue>>)]),
        Raise("timeout")>>,
      <<Json([BaseObj EXCEPT !.summary = JInt(5)])>> }

PostFiles == <<"f1.py", "f2.py">>

\* the state intelligent_code_review returns for the result dicts gathered
StageResult(gathered) ==
    IF gathered = <<>>
    THEN [file_reviews |-> <<>>, overall_summary |-> NothingToReview,
          enhanced_analysis |-> <<create_empty_review_analysis>>]
    ELSE IF \A i \in 1..Len(gathered) : FileReviewInfoValid(gathered[i])
    THEN LET frs == [i \in 1..Len(gathered) |->
                        convert_result_to_file_review(gathered[i], impl)]
             overall_result == calculate_overall_scores(frs)
         IN  [file_reviews |-> frs, overall_summary |-> overall_result.summary,
              enhanced_analysis |-> <<create_enhanced_analysis(overall_result, frs)>>]
    ELSE [file_reviews |-> <<>>, overall_summary |-> NoSummary,
          enhanced_analysis |-> <<>>]

InitPost ==
    /\ impl \in {"graph", "service"}
    /\ pc = "done"
    /\ \E rs \in PostInputs :
          /\ files = SubSeq(PostFiles, 1, Len(rs))
          /\ task = [i \in 1..Len(rs) |-> "settled"]
          /\ replies = [i \in 1..Len(rs) |-> <<rs[i]>>]
          /\ results = [i \in 1..Len(rs) |->
                          <<review_single_file_async(PostFiles[i], rs[i], impl)>>]
          /\ calls = [i \in 1..Len(rs) |-> 1]
    /\ file_reviews = StageResult(Gathered).file_reviews
    /\ enhanced_analysis = StageResult(Gathered).enhanced_analysis
    /\ overall_summary = StageResult(Gathered).overall_summary
    /\ response = NonDict
    /\ record = <<>>
    /\ text = <<>>
    /\ intended = <<>>
    /\ candidate = [found |-> FALSE, s |-> <<>>]
    /\ fixed = <<>>
    /\ comment = NoComment
    /\ max_length = 0
    /\ posted = <<>>
    /\ stored = <<>>
    /\ fallback = <<>>
    /\ file_infos = FetchedInfos(files)
    /\ file_contents = ContentsOf(file_infos)
    /\ db_record_id = IF stored # <<>> /\ stored[1].saved THEN <<RecordId>> ELSE <<>>
    /\ input_state = NewState
    /\ job = NoJob

NextPost ==
    \/ SaveResult
    \/ FormatAnyReport
    \/ PostBatch
    \/ PublishFallback

SpecPost == InitPost /\ [][NextPost]_vars

\* C10: every comment published is no longer than the budget, its position
\* marker included; and when the report is split, no published comment holds
\* a span of a line longer than the usable budget (budget - 100): such a
\* line is always cut.
C10_CommentsWithinBudget ==
    \A k \in 1..Len(posted) :
        /\ posted[k].len <= max_length
        /\ CommentLen(comment) > max_length =>
              \A j \in 1..Len(posted[k].part) :
                  posted[k].part[j].to - posted[k].part[j].from
                      <= max_length - ReservedForHeader

\* the pieces of the comments handed over, in the order of publication
RECURSIVE AllPieces(_)
AllPieces(ps) == IF ps = <<>> THEN <<>> ELSE Head(ps).part \o AllPieces(Tail(ps))

\* C11: segmentation loses nothing: for a report longer than the budget the
\* pieces of the segments, in order, are the lines of the report in order:
\* every line is there, its pieces start at its first character, follow one
\* another without gap or overlap and end at its last character.
C11_SegmentsKeepEveryLine ==
    (posted # <<>> /\ CommentLen(comment) > max_length) =>
        LET pieces == AllPieces(posted)
            span(i) == SelectSeq(pieces, LAMBDA p : p.line = i)
        IN  /\ \A k \in 1..(Len(pieces) - 1) : pieces[k].line <= pieces[k + 1].line
            /\ \A i \in 1..Len(comment) :
                  /\ span(i) # <<>>
                  /\ span(i)[1].from = 0
                  /\ span(i)[Len(span(i))].to = comment[i]
                  /\ \A k \in 1..(Len(span(i)) - 1) : span(i)[k].to = span(i)[k + 1].from


\* C12: whenever the publication of a segment of the report fails, of the
\* only comment of a short report or of a part of a long one, the caller
\* then hands the fallback text to post_pr_comment, once.
C12_FailedSegmentGetsFallback ==
    (pc = "end" /\ \E k \in 1..Len(posted) : posted[k].error) =>
        /\ Len(fallback) = 1
        /\ fallback[1].text = create_fallback_comment(file_reviews, enhanced_analysis, impl)

\* C13: the fallback text shows the number of files reviewed, the number of
\* findings, the number of critical findings and (when there is an aggregate)
\* its overall score.
C13_FallbackShowsFourNumbers ==
    \A k \in 1..Len(fallback) :
        /\ fallback[k].text.files = <<Len(file_reviews)>>
        /\ fallback[k].text.issues = <<SumSeq(IssueCounts(file_reviews))>>
        /\ fallback[k].text.critical = <<SumSeq(CriticalCounts(file_reviews))>>
        /\ enhanced_analysis # <<>> =>
              fallback[k].text.score = <<enhanced_analysis[1].overall_score>>

-----------------------------------------------------------------------------
\* Properties of the pipeline.

Aggregated == file_reviews # <<>> \/ enhanced_analysis # <<>>
Persisted == stored # <<>>
Published == posted # <<>> \/ fallback # <<>>

\* C14: the review stage is a join: aggregation, persistence and publishing
\* start only when every one of the N tasks has settled, no task is running
\* from then on, and an aggregate is built from all N results, never from
\* some of them.
C14_JoinBeforeAggregation ==
    /\ (Aggregated \/ Persisted \/ Published \/ pc \notin {"start", "gather"}) =>
          /\ AllSettled
          /\ \A i \in 1..N : results[i] # <<>>
    /\ enhanced_analysis # <<>> =>
          /\ Len(enhanced_analysis[1].file_results) = N
          /\ \A i \in 1..N :
                enhanced_analysis[1].file_results[i] =
                    convert_result_to_file_review(Gathered[i], impl)

\* the run of a batch of two files is over: both tasks settled, the results
\* aggregated, handed to the store and published
C14_Witness ==
    /\ pc = "end" /\ N = 2
    /\ Len(file_reviews) = 2 /\ enhanced_analysis # <<>>
    /\ Persisted /\ posted # <<>>
    /\ Raised(1) /\ ~Raised(2)

\* C15: a failed publication is not fatal and does not cost the persisted
\* result: post_review_comment never raises, it returns once the fallback
\* has been tried whether or not the fallback failed too, and before the
\* first publish attempt the state's review result was handed to the store.
C15_PublishFailureNotFatal ==
    /\ pc # "raised"
    /\ Published =>
          /\ Persisted
          /\ stored[1].enhanced_analysis = enhanced_analysis
          /\ stored[1].file_reviews = file_reviews
    /\ (\E k \in 1..Len(posted) : posted[k].error) => pc \in {"fallback", "end"}
    /\ fallback # <<>> => pc = "end"

\* the only comment of the report and the fallback after it both failed, and
\* the function has returned, the aggregate having been handed to the store
C15_Witness ==
    /\ pc = "end" /\ N >= 1
    /\ Len(posted) = 1 /\ posted[1].error
    /\ Len(fallback) = 1 /\ fallback[1].error
    /\ Persisted /\ stored[1].enhanced_analysis # <<>>

\* C16: a run of a batch of N >= 1 files that reaches the end of the workflow
\* has an aggregate result and one per-file result for each file of the batch.
C16_RunEndsWithReviewableOutput ==
    (pc = "end" /\ N >= 1) =>
        /\ enhanced_analysis # <<>>
        /\ Len(file_reviews) = N
        /\ \A i \in 1..N : file_reviews[i].filename = files[i]
        /\ enhanced_analysis[1].file_results = file_reviews

-----------------------------------------------------------------------------
\* Properties of the extractor on the text of a reply.

\* the record of the values a valid JSON text holds
ValuesOf(t) == parse_single_file_response(Json(ObjOf(json_loads(t).v)), files[1], impl)

Has(a) == \E i \in 1..Len(text) : text[i] = a

ValidReply == text # NoText /\ intended = text
DefectiveReply == intended # NoText /\ intended # text
PlainProse ==
    /\ text # NoText /\ intended = NoText
    /\ ~Has("{") /\ ~Has("}") /\ ~Has(Q) /\ ~Has(Fence)

\* C17: a reply that is a JSON object but for commas missing between members
\* on consecutive lines or a dangling comma before the closing brace is
\* repaired and decoded, and the record has the values intended in the text.
C17_RepairRecoversIntended ==
    (record # <<>> /\ DefectiveReply) => record[1] = ValuesOf(intended)

\* C18: for a reply that is valid, schema-conforming JSON, whatever its string
\* values hold, the repair leaves the candidate unchanged and the record has
\* exactly the values of the input.
C18_ValidRoundTrip ==
    (record # <<>> /\ ValidReply) =>
        /\ fixed = candidate.s
        /\ record[1] = ValuesOf(text)

RegexDefault == IF impl = "graph" THEN RegexDefaultScoreGraph ELSE DefaultScore

\* the record of a single-file batch is complete: the stage converts it and
\* builds an aggregate that holds its file result
CompleteAggregate(r) ==
    /\ StageResult(<<r>>).enhanced_analysis # <<>>
    /\ Len(StageResult(<<r>>).file_reviews) = 1
    /\ StageResult(<<r>>).file_reviews[1].filename = files[1]
    /\ StageResult(<<r>>).enhanced_analysis[1].file_results = StageResult(<<r>>).file_reviews

\* C19 as stated: for a reply of plain prose the record is for the requested
\* file, its score is 75, its issues a list and its summary generated from
\* the filename, and the stage still returns a complete aggregate.
C19_ProseScores75 ==
    (record # <<>> /\ PlainProse) =>
        /\ record[1].filename = files[1]
        /\ record[1].score = JInt(75)
        /\ record[1].summary = JStr("file " \o files[1] \o " reviewed (regex)")
        /\ CompleteAggregate(record[1])

\* C19: for a reply of plain prose, with no brace, double quote or fence, the
\* record is for the requested file, its six scores are the default of the
\* variant's pattern extraction (75 in graph.py, 80 in the service), its issues
\* and positive points are empty lists and its summary is the sentence
\* generated from the filename; the stage returns a complete aggregate.
C19_ProseGivesVariantDefault ==
    (record # <<>> /\ PlainProse) =>
        /\ record[1].filename = files[1]
        /\ \A i \in 1..6 : RecordScores(record[1])[i] = JInt(RegexDefault)
        /\ record[1].issues = <<>>
        /\ record[1].positive_points = List(<<>>)
        /\ record[1].summary = JStr("file " \o files[1] \o " reviewed (regex)")
        /\ CompleteAggregate(record[1])

C19_Witness ==
    /\ record # <<>> /\ PlainProse
    /\ impl = "service"
    /\ record[1].score = JInt(80)

\* the dict _extract_info_with_regex returns for the reply
Extracted == extract_info_with_regex(response.obj, files[1], impl)

\* a reply that does not decode, and the fields written in it
Undecoded ==
    /\ record # <<>> /\ text # NoText /\ intended = NoText
    /\ response.kind = "regex"

ExtractedScore(key, d) == IF Has(key) THEN JInt(IF key = "overall_score" THEN 250 ELSE 40)
                          ELSE JInt(d)

\* what pattern extraction gives for the fields written in the reply, with d
\* the score of a field that is not; the record holds the scores clamped
FieldsIndependent(d) ==
    /\ Extracted.overall_score = ExtractedScore("overall_score", d)
    /\ Extracted.security_score = ExtractedScore("security_score", d)
    /\ Extracted.code_quality_score = JInt(d)
    /\ Extracted.business_score = JInt(d)
    /\ Extracted.performance_score = JInt(d)
    /\ Extracted.best_practices_score = JInt(d)
    /\ Extracted.summary = IF Has("summary") THEN JStr("needs work")
                           ELSE JStr("file " \o files[1] \o " reviewed (regex)")
    /\ Len(Extracted.issues.items) = (IF Has("title") THEN 1 ELSE 0)
    /\ \A i \in 1..Len(Extracted.issues.items) :
          /\ Extracted.issues.items[i].title = JStr("leak")
          /\ Extracted.issues.items[i].description = JStr("late")
    /\ \A i \in 1..Len(record[1].issues) :
          /\ record[1].issues[i].severity = JStr("info")
          /\ record[1].issues[i].category = JStr("other")
    /\ Extracted.positive_points = IF Has("positive_points") THEN List(<<JStr("tests")>>)
                                   ELSE List(<<>>)
    /\ record[1].score = JInt(IF Has("overall_score") THEN 100 ELSE d)
    /\ record[1].security_score = JInt(IF Has("security_score") THEN 40 ELSE d)

\* C20 as stated: when decoding fails each field the patterns find takes the
\* found value and each field not found takes the default, 80 for a score.
C20_NotFoundScoreIs80 == Undecoded => FieldsIndependent(80)

\* C20: when decoding fails each field the patterns find takes the found
\* value, each title/description pair is one finding with severity info and
\* category other, and each field not found takes the default of the variant
\* (75 for a score in graph.py, 80 in the service, the empty list, the
\* sentence generated from the filename), whatever the other fields are.
C20_FieldsFoundIndependently == Undecoded => FieldsIndependent(RegexDefault)

C20_Witness ==
    /\ Undecoded
    /\ impl = "graph"
    /\ Has("overall_score") /\ ~Has("security_score") /\ Has("title") /\ ~Has("summary")
    /\ Extracted.overall_score = JInt(250)
    /\ Extracted.security_score = JInt(75)

-----------------------------------------------------------------------------
\* The summary of the record.

\* C21: every record the extractor returns has a summary that is a non-empty
\* string, also when the decoded reply has no summary, an empty one or null.
C21_SummaryNonEmpty ==
    record # <<>> => (record[1].summary.t = "str" /\ record[1].summary.s # "")

-----------------------------------------------------------------------------
\* The aggregation on its own: _calculate_overall_scores and the
\* EnhancedAnalysis built from its result, for lists of per-file results.

AnIssue == CodeIssueInfo(GoodIssue)
IssueList(n) == [i \in 1..n |-> AnIssue]

\* the per-file results of the harness: a file may have more findings than
\* the five standards counted for it
IssueNumbers == {0, 1, 6}
FileScores == {60, 85}
QualityScores == {75, 100}

FileResult(filename, score, quality, n) ==
    [filename |-> filename, score |-> score, code_quality_score |-> quality,
     security_score |-> 90, business_score |-> 85, performance_score |-> 60,
     best_practices_score |-> 75, issues |-> IssueList(n),
     positive_points |-> <<"tests">>, summary |-> "ok"]

AggregateFiles == <<"f1.py", "f2.py", "f3.py">>

FileResultLists ==
    UNION {{[i \in 1..n |-> FileResult(AggregateFiles[i], s[i], q[i], k[i])] :
              s \in [1..n -> FileScores], q \in [1..n -> QualityScores],
              k \in [1..n -> IssueNumbers]}
           : n \in 0..MaxFiles}

\* the aggregate of a list of per-file results; the stage builds the one of
\* the empty batch without calling _calculate_overall_scores
aggregate_of(frs) ==
    IF frs = <<>> THEN create_empty_review_analysis
    ELSE create_enhanced_analysis(calculate_overall_scores(frs), frs)

InitAggregate ==
    /\ impl \in {"graph", "service"}
    /\ file_reviews \in FileResultLists
    /\ files = [i \in 1..Len(file_reviews) |-> file_reviews[i].filename]
    /\ pc = "aggregate"
    /\ task = [i \in 1..Len(file_reviews) |-> "settled"]
    /\ replies = [i \in 1..Len(file_reviews) |-> <<>>]
    /\ results = [i \in 1..Len(file_reviews) |-> <<>>]
    /\ calls = [i \in 1..Len(file_reviews) |-> 1]
    /\ enhanced_analysis = <<>>
    /\ overall_summary = NoSummary
    /\ response = NonDict
    /\ record = <<>>
    /\ text = NoText
    /\ intended = NoText
    /\ candidate = NoCandidate
    /\ fixed = NoText
    /\ comment = NoComment
    /\ max_length = 0
    /\ posted = <<>>
    /\ stored = <<>>
    /\ fallback = <<>>
    /\ file_infos = FetchedInfos(files)
    /\ file_contents = ContentsOf(file_infos)
    /\ db_record_id = IF stored # <<>> /\ stored[1].saved THEN <<RecordId>> ELSE <<>>
    /\ input_state = NewState
    /\ job = NoJob

\* the end of intelligent_code_review: the aggregate of the converted results
Aggregate ==
    /\ pc = "aggregate"
    /\ enhanced_analysis' = <<aggregate_of(file_reviews)>>
    /\ overall_summary' = enhanced_analysis'[1].summary
    /\ pc' = "aggregated"
    /\ UNCHANGED <<impl, files, task, replies, results, calls, file_reviews, fetchVars,
                   stateVars, jobVars, parseVars, postVars>>

NextAggregate == Aggregate

SpecAggregate == InitAggregate /\ [][NextAggregate]_vars

TotalFindings(frs) == SumSeq([i \in 1..Len(frs) |-> Len(frs[i].issues)])

\* C22: for F per-file results with T findings in total the aggregate has
\* standards_total = 5*F, standards_failed = T and standards_passed =
\* max(0, 5*F - T): standards_passed is never negative, and passed + failed =
\* total exactly when T <= 5*F.
C22_StandardsCounters ==
    pc = "aggregated" =>
        LET a == enhanced_analysis[1]
            F == Len(file_reviews)
            T == TotalFindings(file_reviews)
        IN  /\ a.standards_total = 5 * F
            /\ a.standards_failed = T
            /\ a.standards_passed = (IF 5 * F >= T THEN 5 * F - T ELSE 0)
            /\ a.standards_passed >= 0
            /\ (a.standards_passed + a.standards_failed = a.standards_total) <=> (T <= 5 * F)

C22_Witness ==
    /\ pc = "aggregated"
    /\ Len(file_reviews) = 2
    /\ TotalFindings(file_reviews) = 12
    /\ enhanced_analysis[1].standards_total = 10
    /\ enhanced_analysis[1].standards_passed = 0

\* the same per-file results with other overall scores
Rescored(frs, s) == [i \in 1..Len(frs) |-> [frs[i] EXCEPT !.score = s[i]]]

\* what an aggregate holds besides the per-file results and the summary
AggregateNumbers(a) ==
    <<a.overall_score, a.code_quality_score, a.security_score, a.business_score,
      a.performance_score, a.best_practices_score,
      a.standards_passed, a.standards_failed, a.standards_total>>

\* C28: the aggregate's overall score and dimension means do not depend on
\* the per-file overall scores: per-file results that differ only in `score`
\* give the same aggregate numbers, and of the summary only the count of
\* high-quality files (score >= 85) follows the per-file scores.
C28_OverallIgnoresFileScore ==
    pc = "aggregated" =>
        \A s \in [1..Len(file_reviews) -> FileScores] :
            LET a == enhanced_analysis[1]
                other == aggregate_of(Rescored(file_reviews, s))
            IN  /\ AggregateNumbers(other) = AggregateNumbers(a)
                /\ other.summary.files = a.summary.files
                /\ other.summary.issues = a.summary.issues
                /\ other.summary.high = Cardinality({i \in 1..Len(file_reviews) : s[i] >= 85})
                /\ file_reviews # <<>> =>
                      /\ calculate_overall_scores(Rescored(file_reviews, s)).performance_score
                           = calculate_overall_scores(file_reviews).performance_score
                      /\ calculate_overall_scores(Rescored(file_reviews, s)).best_practices_score
                           = calculate_overall_scores(file_reviews).best_practices_score

\* two files, one of high quality by its own score and one not, and an
\* overall score that is neither file's
C28_Witness ==
    /\ pc = "aggregated"
    /\ Len(file_reviews) = 2
    /\ file_reviews[1].score = 85
    /\ file_reviews[2].score = 60
    /\ enhanced_analysis[1].summary.high = 1
    /\ enhanced_analysis[1].overall_score \notin {850, 600}

-----------------------------------------------------------------------------
\* No retry inside the pipeline.

\* C23: within one run the model is invoked exactly once for each input file,
\* also when the call raises; the review result is handed to the store at
\* most once, each comment of the report is handed to the platform once, and
\* the fallback comment at most once.
C23_NoRetry ==
    /\ \A i \in 1..Len(files) : calls[i] <= 1
    /\ \A i \in 1..Len(files) : task[i] \in {"awaiting", "settled"} => calls[i] = 1
    /\ pc \in {"done", "saved", "post", "fallback", "end"} =>
          \A i \in 1..Len(files) : calls[i] = 1
    /\ Len(stored) <= 1
    /\ Len(fallback) <= 1
    /\ posted # <<>> =>
          /\ Len(posted) = Len(comments_to_post(comment, max_length))
          /\ \A i \in 1..Len(posted) : posted[i].index = i
    /\ fallback # <<>> => (Len(posted) = 1 /\ posted[1].error)

\* a finished run in which a model call, the store, the publish and the
\* fallback publish have all failed
C23_Witness ==
    /\ pc = "end"
    /\ Len(files) = 2
    /\ Raised(1)
    /\ calls = <<1, 1>>
    /\ stored # <<>> /\ ~stored[1].saved
    /\ fallback # <<>> /\ fallback[1].error

-----------------------------------------------------------------------------
\* The fetch stage in front of the review stage.

FileStatuses == {"added", "removed"}

\* the code files of the pull request as get_pr_files lists them: no content yet
CodeFileLists ==
    UNION {{[i \in 1..n |-> FileInfo(AggregateFiles[i], st[i], NoContent)] :
              st \in [1..n -> FileStatuses]} : n \in 0..MaxFiles}

FetchErrors == {"timeout"}

InitFetch ==
    /\ impl \in {"graph", "service"}
    /\ files = <<>>
    /\ pc = "fetch"
    /\ task = <<>>
    /\ replies = <<>>
    /\ results = <<>>
    /\ calls = <<>>
    /\ file_reviews = <<>>
    /\ enhanced_analysis = <<>>
    /\ overall_summary = NoSummary
    /\ response = NonDict
    /\ record = <<>>
    /\ text = NoText
    /\ intended = NoText
    /\ candidate = NoCandidate
    /\ fixed = NoText
    /\ comment = NoComment
    /\ max_length = 0
    /\ posted = <<>>
    /\ stored = <<>>
    /\ fallback = <<>>
    /\ file_infos \in CodeFileLists
    /\ file_contents = [f \in {} |-> NoContent]
    /\ db_record_id = <<>>
    /\ input_state = NewState
    /\ job = NoJob

\* fetch_pr_and_code_files when get_pr_info or get_pr_files raises: nothing
\* catches the exception (the service logs and re-raises), the run ends
FetchAborts ==
    /\ pc = "fetch"
    /\ pc' = "aborted"
    /\ UNCHANGED <<impl, files, task, replies, results, calls, file_reviews,
                   enhanced_analysis, overall_summary, fetchVars, stateVars, jobVars,
                   parseVars, postVars>>

\* a content loop that leaves a file whose content could not be fetched out
\* of the list
FetchFilesSkippingFailed ==
    /\ pc = "fetch"
    /\ \E failed \in SUBSET {i \in 1..Len(file_infos) : file_infos[i].status # "removed"} :
          LET Kept(f) == f.status = "removed" \/ f.content # NoContent
          IN  file_infos' = SelectSeq([i \in 1..Len(file_infos) |->
                                         IF file_infos[i].status = "removed" THEN file_infos[i]
                                         ELSE [file_infos[i] EXCEPT
                                                 !.content = IF i \in failed THEN NoContent
                                                             ELSE Content(file_infos[i].filename)]],
                                      Kept)
    /\ file_contents' = ContentsOf(file_infos')
    /\ files' = [i \in 1..Len(file_infos') |-> file_infos'[i].filename]
    /\ task' = [i \in 1..Len(file_infos') |-> "new"]
    /\ replies' = [i \in 1..Len(file_infos') |-> <<>>]
    /\ results' = [i \in 1..Len(file_infos') |-> <<>>]
    /\ calls' = [i \in 1..Len(file_infos') |-> 0]
    /\ file_reviews' = <<>>
    /\ pc' = "start"
    /\ UNCHANGED <<impl, enhanced_analysis, overall_summary, response, record, text,
                   intended, candidate, fixed, stateVars, jobVars, postVars>>

\* the content loop of fetch_pr_and_code_files / _fetch_file_contents: a file
\* that is not removed gets the content the platform returns or, when
\* get_file_content raises (failed), the error sentinel, in file_contents and
\* in the FileInfo itself; every file is appended to the list of the new state
FetchFiles ==
    /\ pc = "fetch"
    /\ \E failed \in SUBSET {i \in 1..Len(file_infos) : file_infos[i].status # "removed"} :
       \E e \in FetchErrors :
          file_infos' = [i \in 1..Len(file_infos) |->
                           IF file_infos[i].status = "removed" THEN file_infos[i]
                           ELSE [file_infos[i] EXCEPT
                                   !.content = IF i \in failed THEN ErrorSentinel(e)
                                               ELSE Content(file_infos[i].filename)]]
    /\ file_contents' = ContentsOf(file_infos')
    /\ files' = [i \in 1..Len(file_infos) |-> file_infos[i].filename]
    /\ task' = [i \in 1..Len(file_infos) |-> "new"]
    /\ replies' = [i \in 1..Len(file_infos) |-> <<>>]
    /\ results' = [i \in 1..Len(file_infos) |-> <<>>]
    /\ calls' = [i \in 1..Len(file_infos) |-> 0]
    /\ file_reviews' = <<>>
    /\ pc' = "start"
    /\ UNCHANGED <<impl, enhanced_analysis, overall_summary, response, record, text,
                   intended, candidate, fixed, stateVars, jobVars, postVars>>

NextFetch ==
    \/ FetchAborts
    \/ FetchFiles
    \/ ReviewEmpty
    \/ StartTasks
    \/ \E i \in 1..Len(files) : CallModel(i)
    \/ \E i \in 1..Len(files) : Settle(i)
    \/ Join

SpecFetch == InitFetch /\ [][NextFetch]_vars

Fetched == pc \notin {"fetch", "aborted"}
IsSentinel(content) == \E e \in FetchErrors : content = ErrorSentinel(e)

\* C24: a failure to fetch one file's content leaves the file in the review
\* list with the error sentinel as its content, leaves the other files'
\* contents as the platform returned them, and the finished review stage has
\* invoked the model for every file of the list, that file included.
C24_FetchFailureKeepsFile ==
    Fetched =>
        /\ Len(files) = Len(file_infos)
        /\ \A i \in 1..Len(file_infos) :
              /\ files[i] = file_infos[i].filename
              /\ file_infos[i].filename = AggregateFiles[i]
              /\ file_infos[i].status # "removed" =>
                    /\ file_infos[i].filename \in DOMAIN file_contents
                    /\ file_contents[file_infos[i].filename] = file_infos[i].content
                    /\ \/ file_infos[i].content = Content(file_infos[i].filename)
                       \/ IsSentinel(file_infos[i].content)
              /\ pc = "done" => calls[i] = 1

\* a finished review stage of two files, the first with the sentinel as its
\* content and the second with its own content
C24_Witness ==
    /\ pc = "done"
    /\ Len(files) = 2
    /\ IsSentinel(file_infos[1].content)
    /\ file_contents["f1.py"] = ErrorSentinel("timeout")
    /\ file_infos[2].content = Content("f2.py")
    /\ calls = <<1, 1>>

\* C29: a code file with status removed is never content-fetched (no entry in
\* file_contents, content still empty) but stays in the review list at its
\* position and has had exactly one model call when the review stage is done.
C29_RemovedFileStillReviewed ==
    Fetched =>
        \A i \in 1..Len(file_infos) :
            file_infos[i].status = "removed" =>
                /\ file_infos[i].filename \notin DOMAIN file_contents
                /\ file_infos[i].content = NoContent
                /\ Len(files) = Len(file_infos)
                /\ files[i] = AggregateFiles[i]
                /\ calls[i] <= 1
                /\ pc = "done" => calls[i] = 1

C29_Witness ==
    /\ pc = "done"
    /\ Len(files) = 2
    /\ file_infos[1].status = "removed"
    /\ file_infos[2].status = "added"
    /\ DOMAIN file_contents = {"f2.py"}
    /\ calls = <<1, 1>>
    /\ Len(file_reviews) = 2
    /\ file_reviews[1].filename = "f1.py"


-----------------------------------------------------------------------------
\* Replies with fenced blocks: which candidate the extractor takes.

ObjectWith(c) == ObjectText(Members(c, TRUE), FALSE, 0, FALSE)
Note == <<"see", SP, "the", SP, "diff">>
OtherContent == <<"rated", SP, "5">>

\* the six shapes of a reply around the object holding c (and, in the fifth,
\* a second object): the object in a fence labeled json, in a plain fence,
\* after a plain fence holding a note, in a plain fence after a json fence
\* holding a note, in a json fence with another object after it, and between
\* two sentences
FencedText(shape, c) ==
    CASE shape = 1 -> <<"Review", ":", NL, Fence, "json", NL>> \o ObjectWith(c) \o <<NL, Fence>>
      [] shape = 2 -> <<"Review", ":", NL, Fence, NL>> \o ObjectWith(c) \o <<NL, Fence, NL, "Done">>
      [] shape = 3 -> <<Fence, NL>> \o Note \o <<NL, Fence, NL>> \o ObjectWith(c)
      [] shape = 4 -> <<Fence, "json", NL>> \o Note \o <<NL, Fence, NL, Fence, NL>>
                      \o ObjectWith(c) \o <<NL, Fence>>
      [] shape = 5 -> <<Fence, "json", NL>> \o ObjectWith(c) \o <<NL, Fence, NL>>
                      \o ObjectWith(<<"second">>)
      [] OTHER -> <<"Review", ":", SP>> \o ObjectWith(c) \o <<SP, "Done">>

FenceShapes == 1..6

FencedTexts ==
    { [text |-> FencedText(shape, c), intended |-> ObjectWith(c)] :
        shape \in FenceShapes, c \in {PlainContent, OtherContent} }

InitFence ==
    /\ impl \in {"graph", "service"}
    /\ files \in {<<f>> : f \in Filenames}
    /\ pc = "parse"
    /\ task = <<"new">>
    /\ replies = <<<<>>>>
    /\ results = <<<<>>>>
    /\ calls = <<0>>
    /\ file_reviews = <<>>
    /\ enhanced_analysis = <<>>
    /\ overall_summary = NoSummary
    /\ response = NonDict
    /\ record = <<>>
    /\ \E x \in FencedTexts : text = x.text /\ intended = x.intended
    /\ candidate = NoCandidate
    /\ fixed = NoText
    /\ comment = NoComment
    /\ max_length = 0
    /\ posted = <<>>
    /\ stored = <<>>
    /\ fallback = <<>>
    /\ file_infos = FetchedInfos(files)
    /\ file_contents = ContentsOf(file_infos)
    /\ db_record_id = IF stored # <<>> /\ stored[1].saved THEN <<RecordId>> ELSE <<>>
    /\ input_state = NewState
    /\ job = NoJob

SpecFence == InitFence /\ [][NextText]_vars

\* what strategy k matches in the reply: the json fence, any fence, the brace
\* span; its candidate is the match without the white space around it
StrategyMatch(t, k) ==
    CASE k = 1 -> JsonFenceMatch(t) [] k = 2 -> FenceMatch(t) [] OTHER -> BraceMatch(t)
StrategyText(t, k) == Strip(StrategyMatch(t, k).s)

\* the candidate of strategy k is there and is the text of a JSON object
StrategyDecodes(t, k) ==
    /\ StrategyMatch(t, k).found
    /\ json_loads(StrategyText(t, k)).ok
    /\ json_loads(StrategyText(t, k)).v.t = "dict"

\* C25: whenever at least one of the three candidates of a reply decodes to a
\* JSON object, the record's values are those of the highest-priority
\* candidate that decodes.
C25_FirstDecodingCandidateWins ==
    record # <<>> =>
        \A k \in 1..3 :
            (StrategyDecodes(text, k) /\ \A j \in 1..(k - 1) : ~StrategyDecodes(text, j))
                => record[1] = ValuesOf(StrategyText(text, k))

-----------------------------------------------------------------------------
\* The parts of a long report.

\* post_review_comment of graph.py at its call of post_pr_comments_batch: the
\* result of a one-file review is stored and a report of any shape is to be
\* published
InitBatch ==
    /\ impl = "graph"
    /\ pc = "post"
    /\ files = <<"f1.py">>
    /\ task = <<"settled">>
    /\ replies = <<<<Json(BaseObj)>>>>
    /\ results = <<<<review_single_file_async("f1.py", Json(BaseObj), impl)>>>>
    /\ calls = <<1>>
    /\ file_reviews = StageResult(Gathered).file_reviews
    /\ enhanced_analysis = StageResult(Gathered).enhanced_analysis
    /\ overall_summary = StageResult(Gathered).overall_summary
    /\ response = NonDict
    /\ record = <<>>
    /\ text = NoText
    /\ intended = NoText
    /\ candidate = NoCandidate
    /\ fixed = NoText
    /\ \E budget \in Budgets : max_length = budget /\ comment \in Reports(budget)
    /\ posted = <<>>
    /\ stored = <<[enhanced_analysis |-> enhanced_analysis, file_reviews |-> file_reviews,
                   saved |-> TRUE]>>
    /\ fallback = <<>>
    /\ file_infos = FetchedInfos(files)
    /\ file_contents = ContentsOf(file_infos)
    /\ db_record_id = IF stored # <<>> /\ stored[1].saved THEN <<RecordId>> ELSE <<>>
    /\ input_state = NewState
    /\ job = NoJob

NextBatch ==
    \/ PostBatch
    \/ PublishFallback

SpecBatch == InitBatch /\ [][NextBatch]_vars

Segments == split_comment(comment, max_length)
SplitReport == posted # <<>> /\ CommentLen(comment) > max_length /\ Len(Segments) > 1

\* C26: a report split into N > 1 segments is published in the order 1..N,
\* segment i with the marker (i/N) in front of it; a publish that fails leaves
\* an error entry at its position and the segments after it are published
\* all the same: the batch returns N entries, one per segment, in order.
C26_SegmentsPublishedInOrder ==
    SplitReport =>
        /\ Len(posted) = Len(Segments)
        /\ \A i \in 1..Len(posted) :
              /\ posted[i].index = i
              /\ posted[i].of = Len(Segments)
              /\ posted[i].part = Segments[i]
              /\ posted[i].len = PartLen(Segments[i]) + HeaderLen(i, Len(Segments))
        /\ pc = "end"
        /\ fallback = <<>>

\* three segments, the publish of the first and the second failed, the third
\* published
C26_Witness ==
    /\ SplitReport
    /\ Len(posted) >= 3
    /\ posted[1].error
    /\ posted[2].error
    /\ ~posted[3].error
    /\ pc = "end"

-----------------------------------------------------------------------------
\* C27: once the review stage has returned, what it returned is a copy of the
\* state it was called with, not that state itself, and the state it was
\* called with still has the field values it had before the call, whatever
\* is assigned to the returned state afterwards.
C27_ReviewStageReturnsCopy ==
    pc \in {"done", "saved", "post", "fallback", "end"} =>
        /\ ~ReturnedIsInput
        /\ input_state = NewState
    /\ job = NoJob


-----------------------------------------------------------------------------
\* The job of the worker: process_pull_request, a bound task with
\* max_retries = 3 that runs the pipeline and asks for a retry when it raises.

max_retries == 3

\* author_info as the webhook passes it: absent, a dict UserInfo accepts, a
\* dict it rejects
AuthorInfos == {"none", "valid", "invalid"}

author_of(author_info) == IF author_info = "valid" THEN "alice" ELSE "unknown"

\* what run_code_review returns, reduced to what the task reads of it: the
\* number of findings of each file of file_reviews and of
\* enhanced_analysis.file_results
PipelineResults ==
    { [file_reviews |-> <<>>, file_results |-> <<>>],
      [file_reviews |-> <<>>, file_results |-> <<2>>],
      [file_reviews |-> <<0, 1>>, file_results |-> <<0, 1>>] }

PipelineErrors == {"timeout", "bad credentials"}

\* the dict the task returns for a pipeline result
success_of(result) ==
    LET reviews == IF result.file_reviews = <<>> THEN result.file_results
                   ELSE result.file_reviews
    IN  [status |-> "success", file_count |-> Len(reviews),
         issue_count |-> SumSeq(reviews)]

InitJob ==
    /\ impl = "graph"
    /\ pc = "job_running"
    /\ files = <<>>
    /\ task = <<>>
    /\ replies = <<>>
    /\ results = <<>>
    /\ calls = <<>>
    /\ file_reviews = <<>>
    /\ enhanced_analysis = <<>>
    /\ overall_summary = NoSummary
    /\ response = NonDict
    /\ record = <<>>
    /\ text = NoText
    /\ intended = NoText
    /\ candidate = NoCandidate
    /\ fixed = NoText
    /\ comment = NoComment
    /\ max_length = 0
    /\ posted = <<>>
    /\ stored = <<>>
    /\ fallback = <<>>
    /\ file_infos = FetchedInfos(files)
    /\ file_contents = ContentsOf(file_infos)
    /\ db_record_id = IF stored # <<>> /\ stored[1].saved THEN <<RecordId>> ELSE <<>>
    /\ input_state = NewState
    /\ \E platform \in {"github", "gitee"}, author_info \in AuthorInfos :
          job = [NoJob EXCEPT !.platform = platform, !.author = author_of(author_info)]

\* the run of the task body returns: the task returns the success dict
RunReturns ==
    /\ pc = "job_running"
    /\ \E result \in PipelineResults :
          job' = [job EXCEPT !.runs = @ + 1, !.outcome = <<success_of(result)>>]
    /\ pc' = "job_succeeded"
    /\ UNCHANGED <<impl, files, task, replies, results, calls, file_reviews,
                   enhanced_analysis, overall_summary, file_infos, file_contents,
                   input_state, db_record_id, response, record, text, intended,
                   candidate, fixed, postVars>>

\* a handler that asks for the retry with the same countdown every time
RunRaisesFixedCountdown ==
    /\ pc = "job_running"
    /\ \E e \in PipelineErrors :
          IF job.retries < max_retries
          THEN /\ job' = [job EXCEPT !.runs = @ + 1, !.errors = Append(@, e),
                                     !.retries = @ + 1,
                                     !.countdowns = Append(@, 60)]
               /\ pc' = "job_waiting"
          ELSE /\ job' = [job EXCEPT !.runs = @ + 1, !.errors = Append(@, e),
                                     !.outcome = <<[status |-> "raised", error |-> e]>>]
               /\ pc' = "job_failed"
    /\ UNCHANGED <<impl, files, task, replies, results, calls, file_reviews,
                   enhanced_analysis, overall_summary, file_infos, file_contents,
                   input_state, db_record_id, response, record, text, intended,
                   candidate, fixed, postVars>>

\* the run raises e: the handler calls self.retry(exc=e, countdown=60 *
\* (self.request.retries + 1)).  While retries < max_retries the task is sent
\* again with retries + 1 and that countdown; after that retry raises e itself.
\* retry raises in both cases: the `return` after it is never reached
RunRaises ==
    /\ pc = "job_running"
    /\ \E e \in PipelineErrors :
          IF job.retries < max_retries
          THEN /\ job' = [job EXCEPT !.runs = @ + 1, !.errors = Append(@, e),
                                     !.retries = @ + 1,
                                     !.countdowns = Append(@, 60 * (job.retries + 1))]
               /\ pc' = "job_waiting"
          ELSE /\ job' = [job EXCEPT !.runs = @ + 1, !.errors = Append(@, e),
                                     !.outcome = <<[status |-> "raised", error |-> e]>>]
               /\ pc' = "job_failed"
    /\ UNCHANGED <<impl, files, task, replies, results, calls, file_reviews,
                   enhanced_analysis, overall_summary, file_infos, file_contents,
                   input_state, db_record_id, response, record, text, intended,
                   candidate, fixed, postVars>>

\* the countdown is over: a worker takes the retried task
Redeliver ==
    /\ pc = "job_waiting"
    /\ pc' = "job_running"
    /\ UNCHANGED <<impl, files, task, replies, results, calls, file_reviews,
                   enhanced_analysis, overall_summary, fetchVars, stateVars, jobVars,
                   parseVars, postVars>>

NextJob ==
    \/ RunReturns
    \/ RunRaises
    \/ Redeliver

SpecJob == InitJob /\ [][NextJob]_vars

\* C30: every retry scheduled so far followed a run that raised, there are at
\* most 3 of them and the k-th has a countdown of 60*k seconds; the error is
\* propagated only by the run after the third retry, and a run that returned
\* ends the job with no retry after it.
C30_RetryPolicy ==
    pc \in {"job_running", "job_waiting", "job_succeeded", "job_failed"} =>
        /\ Len(job.countdowns) <= 3
        /\ \A k \in 1..Len(job.countdowns) : job.countdowns[k] = 60 * k
        /\ job.retries = Len(job.countdowns)
        /\ pc = "job_failed" =>
              /\ Len(job.countdowns) = 3
              /\ job.runs = 4
              /\ Len(job.errors) = 4
              /\ job.outcome = <<[status |-> "raised", error |-> job.errors[4]]>>
        /\ pc # "job_failed" => Len(job.countdowns) = Len(job.errors)
        /\ pc = "job_succeeded" =>
              /\ job.runs = Len(job.countdowns) + 1
              /\ job.outcome # <<>> /\ job.outcome[1].status = "success"
        /\ pc \in {"job_running", "job_waiting"} => job.outcome = <<>>

C30_Witness ==
    /\ pc = "job_failed"
    /\ job.countdowns = <<60, 120, 180>>

====
